---- MODULE Spec2Model ----
(***************************************************************************)
(* Smart City Parking: the spatial-integrity triggers of the PostGIS       *)
(* schema (parking_zones, parking_bays, sensors, violations,               *)
(* parking_sessions) and the session / bay-status flows that write them.   *)
(*                                                                         *)
(* Geometry is planar, in metres on an integer grid: a polygon is an       *)
(* axis-aligned rectangle [x1,x2] x [y1,y2], a point has x1 = x2, y1 = y2. *)
(* Ratios and distances are compared without division or square roots:    *)
(*   area(i)/area(b) < 0.9   is   10*area(i) < 9*area(b)                   *)
(*   distance > t            is   distance^2 > t^2                         *)
(***************************************************************************)
EXTENDS Integers, FiniteSets, Sequences, TLC

VARIABLES
    zones,        \* parking_zones:    zone_id      -> [geom]
    bays,         \* parking_bays:     bay_id       -> [zone_id, geom, status]
    sensors,      \* sensors:          sensor_id    -> [bay_id, geom]
    violations,   \* violations:       violation_id -> [bay_id, geom]
    sessions,     \* parking_sessions: session_id   -> [bay_id, status]
    last,         \* the last write statement: its result and, when refused, its columns
    pc,           \* driver -> where its session start stands
    req,          \* driver -> the bay of its StartSession page
    opview,       \* the bay and status the operator's bay list shows
    dep,          \* the transaction that writes a dependent row
    par,          \* the transaction that writes a referenced row
    db0,          \* the database the two transactions started from
    street_segments,    \* street_segments:    segment_id  -> [geom]
    payment_terminals,  \* payment_terminals:  terminal_id -> [geom]
    points_of_interest, \* points_of_interest: poi_id      -> [geom]
    call,         \* the last function call: its name, arguments and result
    osm_parking_raw,          \* osm_parking_raw: the staging rows [osm_id, osm_type, geom]
    osm_zones,                \* the parking_zones rows that came from staging rows
    osm_bays,                 \* the sets of generated bays, each with its zone's osm_id
    geometry_conversion_log,  \* geometry_conversion_log: the rows written so far
    runs,                     \* import run -> its batch and where it stands in it
    locks,                    \* the source identifiers some run holds
    authStore,     \* useAuthStore: [token, user, isAuthenticated]
    authStorage,   \* localStorage "auth-storage": the persisted token
    authHeader,    \* api.defaults.headers.common["Authorization"]
    pending        \* the requests of login and of the verification under way

db == <<zones, bays, sensors, violations, sessions>>
procVars == <<pc, req, opview>>
txVars == <<dep, par, db0>>
extVars == <<street_segments, payment_terminals, points_of_interest, call>>
impVars == <<osm_parking_raw, osm_zones, osm_bays, geometry_conversion_log, runs, locks>>
authVars == <<authStore, authStorage, authHeader, pending>>
vars == <<zones, bays, sensors, violations, sessions, last, pc, req, opview, dep, par, db0,
          street_segments, payment_terminals, points_of_interest, call,
          osm_parking_raw, osm_zones, osm_bays, geometry_conversion_log, runs, locks,
          authStore, authStorage, authHeader, pending>>

----------------------------------------------------------------------------
(* Bounds of the model *)

MaxId == 2        \* zone and bay ids are 1..MaxId
MaxPointId == 1   \* sensor, violation and session ids are 1..MaxPointId
MaxRows == 3      \* rows of the spatial tables, all tables together
MaxDrivers == 2   \* drivers starting sessions at the same time
MaxSessions == 2  \* sessions the drivers start

(* Program constants *)

SRID == 4326
NULL == 0
OverlapNum == 9          \* 0.9 = OverlapNum / OverlapDen
OverlapDen == 10
threshold_meters == 3    \* sensor to bay
ToleranceMeters == 2     \* violation to bay

ZoneIds == 1..MaxId
BayIds == 1..MaxId
SensorIds == 1..MaxPointId
ViolationIds == 1..MaxPointId
SessionIds == 1..MaxPointId
Drivers == 1..MaxDrivers

----------------------------------------------------------------------------
(* Geometry kernel: the PostGIS functions the triggers call *)

Geom(k, s, a, b, c, d) ==
    [kind |-> k, srid |-> s, x1 |-> a, y1 |-> b, x2 |-> c, y2 |-> d, empty |-> FALSE]
Polygon(a, b, c, d) == Geom("POLYGON", SRID, a, b, c, d)
Point(x, y) == Geom("POINT", SRID, x, y, x, y)
\* a line of two vertices, from (a, b) to (c, d)
LineString(a, b, c, d) == Geom("LINESTRING", SRID, a, b, c, d)
\* POLYGON EMPTY, LINESTRING EMPTY, POINT EMPTY: a kind and no coordinates
Empty(k) == [Geom(k, SRID, 0, 0, 0, 0) EXCEPT !.empty = TRUE]

GeometryType(g) == g.kind
ST_SRID(g) == g.srid

ST_IsEmpty(g) == g.empty

\* a polygon ring must enclose area and a line needs two distinct vertices;
\* points and empty geometries are always valid
ST_IsValid(g) ==
    \/ g.empty
    \/ CASE g.kind = "POLYGON" -> g.x1 < g.x2 /\ g.y1 < g.y2
          [] g.kind = "LINESTRING" -> <<g.x1, g.y1>> # <<g.x2, g.y2>>
          [] OTHER -> TRUE

Max(a, b) == IF a >= b THEN a ELSE b
Min(a, b) == IF a <= b THEN a ELSE b

ST_Area(g) == IF g.empty \/ g.kind # "POLYGON" THEN 0 ELSE (g.x2 - g.x1) * (g.y2 - g.y1)

\* area of ST_Intersection(a, b)
IntersectionArea(a, b) ==
    LET w == Min(a.x2, b.x2) - Max(a.x1, b.x1)
        h == Min(a.y2, b.y2) - Max(a.y1, b.y1)
    IN  IF ST_Area(a) > 0 /\ ST_Area(b) > 0 /\ w > 0 /\ h > 0 THEN w * h ELSE 0

\* ST_Within(a, b): a lies in b and their interiors meet; a point on the
\* boundary of b is not within b; nothing is within, or has within it, an
\* empty geometry
ST_Within(a, b) ==
    IF a.empty \/ b.empty THEN FALSE
    ELSE IF a.kind = "POINT"
    THEN b.x1 < a.x1 /\ a.x1 < b.x2 /\ b.y1 < a.y1 /\ a.y1 < b.y2
    ELSE /\ b.x1 <= Min(a.x1, a.x2) /\ Max(a.x1, a.x2) <= b.x2
         /\ b.y1 <= Min(a.y1, a.y2) /\ Max(a.y1, a.y2) <= b.y2

ST_Contains(b, a) == ST_Within(a, b)

\* ST_Distance(p::geography, g::geography), squared
Distance2(p, g) ==
    LET dx == Max(Max(g.x1 - p.x1, p.x1 - g.x2), 0)
        dy == Max(Max(g.y1 - p.y1, p.y1 - g.y2), 0)
    IN  dx * dx + dy * dy

\* ST_Distance of an empty geography is NULL: no comparison with it is true
DistanceIsNull(p, g) == p.empty \/ g.empty

ST_DWithin(p, g, meters) == ~DistanceIsNull(p, g) /\ Distance2(p, g) <= meters * meters

----------------------------------------------------------------------------
(* Inputs of the writes *)

ZoneGeomInputs ==
    { Polygon(1, 0, 20, 10), Polygon(2, 0, 20, 10), Point(3, 3) }

\* against the zones above: the first bay overlaps by exactly 90% and by 80%,
\* the second lies within both
BayGeomInputs ==
    { Polygon(0, 0, 10, 5), Polygon(12, 2, 16, 4), Polygon(4, 4, 4, 8) }

\* against the bays above: inside the first and 7 m from the second; 2 m from
\* the first and on the boundary of the second; 3 m from the first and inside
\* the second
PointInputs ==
    { Point(5, 2), Point(12, 2), Point(13, 3), Geom("POINT", 3857, 5, 2, 5, 2) }

BayStatuses == {"available", "occupied", "closed", "reserved"}
SessionStatuses == {"active", "completed", "overstay", "cancelled"}

\* the statuses the session writes carry, and one the schema does not know
SessionStatusInputs == SessionStatuses \cup {"paused"}

----------------------------------------------------------------------------
(* Tables *)

NoRows == [i \in {} |-> NULL]
NoView == [bay |-> NULL, status |-> "none"]
NoTx == [st |-> <<>>, phase |-> "idle", ks |-> NULL, cb |-> {}, result |-> "none"]
NoCall == [fn |-> "none", args |-> <<>>, result |-> <<>>]
Put(t, id, row) == [i \in DOMAIN t \cup {id} |-> IF i = id THEN row ELSE t[i]]
Drop(t, ids) == [i \in DOMAIN t \ ids |-> t[i]]

RowCount == Cardinality(DOMAIN zones) + Cardinality(DOMAIN bays)
            + Cardinality(DOMAIN sensors) + Cardinality(DOMAIN violations)
            + Cardinality(DOMAIN sessions)

OK == "ok"

RECURSIVE FirstError(_)
\* triggers of one statement fire in order; the first exception aborts it
FirstError(results) ==
    IF results = <<>> THEN OK
    ELSE IF Head(results) # OK THEN Head(results)
    ELSE FirstError(Tail(results))

\* RAISE EXCEPTION in a row trigger aborts the statement: nothing of it is kept
PersistAlways(result, old, new) == new
Persist(result, old, new) == IF result = OK THEN new ELSE old

----------------------------------------------------------------------------
(* Trigger functions *)

validate_zone_geometry_type(g) ==
    IF GeometryType(g) # "POLYGON" THEN "GeometryTypeMismatch"
    ELSE IF ST_SRID(g) # SRID THEN "ReferenceSystemMismatch"
    ELSE IF ~ST_IsValid(g) THEN "InvalidGeometry"
    ELSE OK

validate_bay_geometry_type(g) ==
    IF GeometryType(g) # "POLYGON" THEN "GeometryTypeMismatch"
    ELSE IF ST_SRID(g) # SRID THEN "ReferenceSystemMismatch"
    ELSE IF ~ST_IsValid(g) THEN "InvalidGeometry"
    ELSE OK

validate_sensor_geometry_type(g) ==
    IF GeometryType(g) # "POINT" THEN "GeometryTypeMismatch"
    ELSE IF ST_SRID(g) # SRID THEN "ReferenceSystemMismatch"
    ELSE OK

validate_violation_geometry_type(g) ==
    IF GeometryType(g) # "POINT" THEN "GeometryTypeMismatch"
    ELSE IF ST_SRID(g) # SRID THEN "ReferenceSystemMismatch"
    ELSE OK

validate_street_geometry_type(g) ==
    IF GeometryType(g) # "LINESTRING" THEN "GeometryTypeMismatch"
    ELSE IF ST_SRID(g) # SRID THEN "ReferenceSystemMismatch"
    ELSE IF ~ST_IsValid(g) THEN "InvalidGeometry"
    ELSE OK

validate_terminal_geometry_type(g) ==
    IF GeometryType(g) # "POINT" THEN "GeometryTypeMismatch"
    ELSE IF ST_SRID(g) # SRID THEN "ReferenceSystemMismatch"
    ELSE OK

\* the 90% rule alone, for a bay geometry and a zone geometry
BayOverlapsZone(bay_geom, zone_geom) ==
    \/ ST_Within(bay_geom, zone_geom)
    \/ ~(IntersectionArea(bay_geom, zone_geom) * OverlapDen < ST_Area(bay_geom) * OverlapNum)

\* as validate_bay_within_zone, but a zone that is not found passes
validate_bay_within_zone_skip(Z, zone_id, g) ==
    IF zone_id \notin DOMAIN Z THEN OK
    ELSE IF ~ST_Within(g, Z[zone_id].geom) /\ ST_Area(g) = 0 THEN "DivisionByZero"
    ELSE IF ~ST_Within(g, Z[zone_id].geom)
            /\ IntersectionArea(g, Z[zone_id].geom) * OverlapDen < ST_Area(g) * OverlapNum
         THEN "ContainmentViolation"
    ELSE OK

\* Z is the parking_zones table the trigger's SELECT sees
validate_bay_within_zone(Z, zone_id, g) ==
    IF zone_id \notin DOMAIN Z THEN "ReferencedEntityNotFound"
    ELSE IF ~ST_Within(g, Z[zone_id].geom) /\ ST_Area(g) = 0 THEN "DivisionByZero"
    ELSE IF ~ST_Within(g, Z[zone_id].geom)
            /\ IntersectionArea(g, Z[zone_id].geom) * OverlapDen < ST_Area(g) * OverlapNum
         THEN "ContainmentViolation"
    ELSE OK

SensorNearBay(p, bay_geom) ==
    \/ ST_Within(p, bay_geom)
    \/ ~(~DistanceIsNull(p, bay_geom)
         /\ Distance2(p, bay_geom) > threshold_meters * threshold_meters)

\* B is the parking_bays table the trigger's SELECT sees
validate_sensor_near_bay(B, bay_id, g) ==
    IF bay_id = NULL THEN OK
    ELSE IF bay_id \notin DOMAIN B THEN "ReferencedEntityNotFound"
    ELSE IF ST_Within(g, B[bay_id].geom) THEN OK
    ELSE IF ~DistanceIsNull(g, B[bay_id].geom)
            /\ Distance2(g, B[bay_id].geom) > threshold_meters * threshold_meters
         THEN "ProximityViolation"
    ELSE OK

ViolationInsideBay(p, bay_geom) ==
    ST_Contains(bay_geom, p) \/ ST_DWithin(p, bay_geom, ToleranceMeters)

validate_violation_inside_bay(B, bay_id, g) ==
    IF bay_id \notin DOMAIN B THEN "ReferencedEntityNotFound"
    ELSE IF ST_Contains(B[bay_id].geom, g) THEN OK
    ELSE IF ST_DWithin(g, B[bay_id].geom, ToleranceMeters) THEN OK
    ELSE "ProximityViolation"

\* CREATE TRIGGER ... BEFORE INSERT OR UPDATE OF <columns>: an UPDATE fires
\* the trigger when its SET list names one of the columns
GeomTypeTriggerCols == {"geom"}
BayWithinZoneGeomOnly == {"geom"}
BayWithinZoneTriggerCols == {"geom", "zone_id"}
SensorNearBayTriggerCols == {"geom", "bay_id"}
ViolationInsideBayTriggerCols == {"geom", "bay_id"}

Fires(triggerCols, cols) == triggerCols \cap cols # {}
When(fires, result) == IF fires THEN result ELSE OK

\* as ChkGeom, without the comparison of the geometry type
ChkGeomNoType(kind, g, checkValid) ==
    IF ST_SRID(g) # SRID THEN "ReferenceSystemMismatch"
    ELSE IF checkValid /\ ~ST_IsValid(g) THEN "InvalidGeometry"
    ELSE OK

\* chk_*_geom_type, chk_*_geom_srid, chk_*_geom_valid: CHECK constraints on
\* every row written, whatever the SET list; the column type
\* GEOMETRY(<kind>, 4326) compares the same kind and SRID
ChkGeom(kind, g, checkValid) ==
    IF GeometryType(g) # kind THEN "GeometryTypeMismatch"
    ELSE IF ST_SRID(g) # SRID THEN "ReferenceSystemMismatch"
    ELSE IF checkValid /\ ~ST_IsValid(g) THEN "InvalidGeometry"
    ELSE OK

\* foreign keys of the schema
FkExists(t, id) == IF id \in DOMAIN t THEN OK ELSE "ForeignKeyViolation"

----------------------------------------------------------------------------
(* Write statements, as functions of the database D they run against.      *)
(* Each returns the statement's result and the database it leaves.         *)

DB == [zones |-> zones, bays |-> bays, sensors |-> sensors,
       violations |-> violations, sessions |-> sessions]

Outcome(res, D, new) == [result |-> res, db |-> Persist(res, D, new)]

\* rows of other tables that reference one of the bays CB without a delete
\* rule (violations.bay_id, parking_sessions.bay_id)
BaysReferenced(D, CB) ==
    \/ \E v \in DOMAIN D.violations : D.violations[v].bay_id \in CB
    \/ \E s \in DOMAIN D.sessions : D.sessions[s].bay_id \in CB

\* sensors.bay_id ... ON DELETE SET NULL
SensorsSetNull(S, CB) ==
    [s \in DOMAIN S |-> IF S[s].bay_id \in CB THEN [bay_id |-> NULL, geom |-> S[s].geom]
                        ELSE S[s]]

zone_insert(D, z, g) ==
    LET res == FirstError(<<validate_zone_geometry_type(g), ChkGeom("POLYGON", g, TRUE)>>)
    IN  Outcome(res, D, [D EXCEPT !.zones = Put(D.zones, z, [geom |-> g])])

\* UPDATE parking_zones SET geom: no trigger looks at the zone's bays
zone_update(D, z, g) ==
    LET res == FirstError(<<validate_zone_geometry_type(g), ChkGeom("POLYGON", g, TRUE)>>)
    IN  Outcome(res, D, [D EXCEPT !.zones = Put(D.zones, z, [geom |-> g])])

\* as zone_delete, with the bays of the zone left in place
zone_delete_alone(D, z) == Outcome(OK, D, [D EXCEPT !.zones = Drop(D.zones, {z})])

\* DELETE FROM parking_zones: parking_bays.zone_id ... ON DELETE CASCADE
zone_delete(D, z) ==
    LET CB == {b \in DOMAIN D.bays : D.bays[b].zone_id = z}
        res == IF BaysReferenced(D, CB) THEN "ForeignKeyViolation" ELSE OK
    IN  Outcome(res, D, [D EXCEPT !.zones = Drop(D.zones, {z}),
                                  !.bays = Drop(D.bays, CB),
                                  !.sensors = SensorsSetNull(D.sensors, CB)])

\* the BEFORE triggers and CHECK constraints of a parking_bays row written
\* by a statement that names the columns cols (an INSERT names them all)
bay_row_checks(D, cols, new) ==
    FirstError(<<
        When(Fires(GeomTypeTriggerCols, cols), validate_bay_geometry_type(new.geom)),
        When(Fires(BayWithinZoneTriggerCols, cols),
             validate_bay_within_zone(D.zones, new.zone_id, new.geom)),
        ChkGeom("POLYGON", new.geom, TRUE)>>)

sensor_row_checks(D, cols, new) ==
    FirstError(<<
        When(Fires(GeomTypeTriggerCols, cols), validate_sensor_geometry_type(new.geom)),
        When(Fires(SensorNearBayTriggerCols, cols),
             validate_sensor_near_bay(D.bays, new.bay_id, new.geom)),
        ChkGeom("POINT", new.geom, FALSE)>>)

violation_row_checks(D, cols, new) ==
    FirstError(<<
        When(Fires(GeomTypeTriggerCols, cols), validate_violation_geometry_type(new.geom)),
        When(Fires(ViolationInsideBayTriggerCols, cols),
             validate_violation_inside_bay(D.bays, new.bay_id, new.geom)),
        ChkGeom("POINT", new.geom, FALSE)>>)

\* the row an UPDATE ... SET <set> makes of the row old
Assign(old, set) ==
    [c \in DOMAIN old |-> IF c \in DOMAIN set THEN set[c] ELSE old[c]]

bay_insert(D, b, zid, g) ==
    LET new == [zone_id |-> zid, geom |-> g, status |-> "available"]
        res == FirstError(<<bay_row_checks(D, {"geom", "zone_id"}, new),
                            FkExists(D.zones, zid)>>)
    IN  Outcome(res, D, [D EXCEPT !.bays = Put(D.bays, b, new)])

\* UPDATE parking_bays SET <cols>
bay_update(D, b, set) ==
    LET new == Assign(D.bays[b], set)
        res == FirstError(<<bay_row_checks(D, DOMAIN set, new),
                            FkExists(D.zones, new.zone_id)>>)
    IN  Outcome(res, D, [D EXCEPT !.bays = Put(D.bays, b, new)])

bay_delete(D, b) ==
    LET res == IF BaysReferenced(D, {b}) THEN "ForeignKeyViolation" ELSE OK
    IN  Outcome(res, D, [D EXCEPT !.bays = Drop(D.bays, {b}),
                                  !.sensors = SensorsSetNull(D.sensors, {b})])

sensor_insert(D, s, bid, g) ==
    LET new == [bay_id |-> bid, geom |-> g]
        res == FirstError(<<sensor_row_checks(D, {"geom", "bay_id"}, new),
                            IF bid = NULL THEN OK ELSE FkExists(D.bays, bid)>>)
    IN  Outcome(res, D, [D EXCEPT !.sensors = Put(D.sensors, s, new)])

sensor_update(D, s, set) ==
    LET new == Assign(D.sensors[s], set)
        res == FirstError(<<sensor_row_checks(D, DOMAIN set, new),
                            IF new.bay_id = NULL THEN OK ELSE FkExists(D.bays, new.bay_id)>>)
    IN  Outcome(res, D, [D EXCEPT !.sensors = Put(D.sensors, s, new)])

sensor_delete(D, s) == Outcome(OK, D, [D EXCEPT !.sensors = Drop(D.sensors, {s})])

violation_insert(D, v, bid, g) ==
    LET new == [bay_id |-> bid, geom |-> g]
        res == FirstError(<<violation_row_checks(D, {"geom", "bay_id"}, new),
                            FkExists(D.bays, bid)>>)
    IN  Outcome(res, D, [D EXCEPT !.violations = Put(D.violations, v, new)])

violation_update(D, v, set) ==
    LET new == Assign(D.violations[v], set)
        res == FirstError(<<violation_row_checks(D, DOMAIN set, new),
                            FkExists(D.bays, new.bay_id)>>)
    IN  Outcome(res, D, [D EXCEPT !.violations = Put(D.violations, v, new)])

violation_delete(D, v) == Outcome(OK, D, [D EXCEPT !.violations = Drop(D.violations, {v})])

\* UPDATE parking_bays SET status = st WHERE bay_id = b
SetStatus(B, b, st) ==
    [x \in DOMAIN B |-> IF x = b THEN [B[x] EXCEPT !.status = st] ELSE B[x]]

\* AFTER INSERT OR UPDATE OF status ON parking_sessions; returns parking_bays
update_bay_status_on_session(TG_OP, OLD_, NEW_, B) ==
    IF TG_OP = "INSERT"
    THEN IF NEW_.status = "active" THEN SetStatus(B, NEW_.bay_id, "occupied") ELSE B
    ELSE IF NEW_.status \in {"completed", "cancelled"} /\ OLD_.status = "active"
         THEN SetStatus(B, NEW_.bay_id, "available")
    ELSE IF NEW_.status = "overstay" /\ OLD_.status = "active"
         THEN SetStatus(B, NEW_.bay_id, "occupied")
    ELSE B

\* status ... CHECK (status IN ('active', 'completed', 'overstay', 'cancelled'))
ChkSessionStatus(st) == IF st \in SessionStatuses THEN OK ELSE "CheckViolation"

\* INSERT INTO parking_sessions (bay_id, status)
session_insert(D, s, bid, st) ==
    LET new == [bay_id |-> bid, status |-> st]
        res == FirstError(<<ChkSessionStatus(st), FkExists(D.bays, bid)>>)
    IN  Outcome(res, D, [D EXCEPT !.sessions = Put(D.sessions, s, new),
                                  !.bays = update_bay_status_on_session("INSERT", new, new, D.bays)])

\* UPDATE parking_sessions SET status = st WHERE session_id = s
session_update(D, s, st) ==
    LET old == D.sessions[s]
        new == [old EXCEPT !.status = st]
        res == ChkSessionStatus(st)
    IN  Outcome(res, D, [D EXCEPT !.sessions = Put(D.sessions, s, new),
                                  !.bays = update_bay_status_on_session("UPDATE", old, new, D.bays)])

----------------------------------------------------------------------------
(* The writes as steps of the system: one statement, one transaction *)

CommitDb(out, cols) ==
    /\ zones' = out.db.zones
    /\ bays' = out.db.bays
    /\ sensors' = out.db.sensors
    /\ violations' = out.db.violations
    /\ sessions' = out.db.sessions
    /\ last' = [cols |-> IF out.result = OK THEN {} ELSE cols, result |-> out.result]

Commit(out, cols) == CommitDb(out, cols) /\ UNCHANGED <<procVars, txVars, extVars, impVars, authVars>>

\* the SET lists of the UPDATE statements: a record of the columns assigned
BaySets ==
    {[geom |-> g] : g \in BayGeomInputs} \cup {[zone_id |-> z] : z \in ZoneIds}
    \cup {[zone_id |-> z, geom |-> g] : z \in ZoneIds, g \in BayGeomInputs}

SensorSets ==
    {[geom |-> g] : g \in PointInputs} \cup {[bay_id |-> b] : b \in BayIds \cup {NULL}}

ViolationSets ==
    {[geom |-> g] : g \in PointInputs} \cup {[bay_id |-> b] : b \in BayIds}

InsertZone(z, g) ==
    /\ z \notin DOMAIN zones /\ RowCount < MaxRows
    /\ Commit(zone_insert(DB, z, g), {"geom"})

UpdateZone(z, g) ==
    /\ z \in DOMAIN zones
    /\ Commit(zone_update(DB, z, g), {"geom"})

DeleteZone(z) ==
    /\ z \in DOMAIN zones
    /\ Commit(zone_delete(DB, z), {})

InsertBay(b, zid, g) ==
    /\ b \notin DOMAIN bays /\ RowCount < MaxRows
    /\ Commit(bay_insert(DB, b, zid, g), {"geom", "zone_id"})

UpdateBay(b, set) ==
    /\ b \in DOMAIN bays
    /\ Commit(bay_update(DB, b, set), DOMAIN set)

DeleteBay(b) ==
    /\ b \in DOMAIN bays
    /\ Commit(bay_delete(DB, b), {})

InsertSensor(s, bid, g) ==
    /\ s \notin DOMAIN sensors /\ RowCount < MaxRows
    /\ Commit(sensor_insert(DB, s, bid, g), {"geom", "bay_id"})

UpdateSensor(s, set) ==
    /\ s \in DOMAIN sensors
    /\ Commit(sensor_update(DB, s, set), DOMAIN set)

DeleteSensor(s) ==
    /\ s \in DOMAIN sensors
    /\ Commit(sensor_delete(DB, s), {})

InsertViolation(v, bid, g) ==
    /\ v \notin DOMAIN violations /\ RowCount < MaxRows
    /\ Commit(violation_insert(DB, v, bid, g), {"geom", "bay_id"})

UpdateViolation(v, set) ==
    /\ v \in DOMAIN violations
    /\ Commit(violation_update(DB, v, set), DOMAIN set)

DeleteViolation(v) ==
    /\ v \in DOMAIN violations
    /\ Commit(violation_delete(DB, v), {})

InsertSession(s, bid, st) ==
    /\ s \notin DOMAIN sessions /\ RowCount < MaxRows
    /\ Commit(session_insert(DB, s, bid, st), {"bay_id", "status"})

UpdateSession(s, st) ==
    /\ s \in DOMAIN sessions
    /\ Commit(session_update(DB, s, st), {"status"})

\* the import runs
Runs == {"first", "second"}
NoRun == [phase |-> "idle", kind |-> "none", batch |-> <<>>, cursor |-> 0, found |-> FALSE]

\* nothing has been imported and no run is under way
NoImport ==
    /\ osm_parking_raw = <<>>
    /\ osm_zones = <<>>
    /\ osm_bays = <<>>
    /\ geometry_conversion_log = <<>>
    /\ runs = [r \in Runs |-> NoRun]
    /\ locks = {}

\* the store as created, nothing persisted and no request under way
NoToken == "null"
NoUser == [role |-> "null"]
NoRequest == [kind |-> "none", token |-> NoToken]
LoggedOut == [token |-> NoToken, user |-> NoUser, isAuthenticated |-> FALSE]
NoAuth ==
    /\ authStore = LoggedOut
    /\ authStorage = NoToken
    /\ authHeader = NoToken
    /\ pending = [login |-> NoRequest, verify |-> NoRequest]

\* the other tables are empty and no function has been called
NoExt ==
    /\ NoImport
    /\ NoAuth
    /\ street_segments = NoRows
    /\ payment_terminals = NoRows
    /\ points_of_interest = NoRows
    /\ call = NoCall

Init ==
    /\ zones = NoRows
    /\ bays = NoRows
    /\ sensors = NoRows
    /\ violations = NoRows
    /\ sessions = NoRows
    /\ last = [cols |-> {}, result |-> OK]
    /\ pc = [d \in Drivers |-> "idle"]
    /\ req = [d \in Drivers |-> NULL]
    /\ opview = NoView
    /\ dep = NoTx
    /\ par = NoTx
    /\ db0 = DB
    /\ NoExt

Next ==
    \/ \E z \in ZoneIds, g \in ZoneGeomInputs : InsertZone(z, g)
    \/ \E z \in ZoneIds, g \in ZoneGeomInputs : UpdateZone(z, g)
    \/ \E z \in ZoneIds : DeleteZone(z)
    \/ \E b \in BayIds, zid \in ZoneIds, g \in BayGeomInputs : InsertBay(b, zid, g)
    \/ \E b \in BayIds, set \in BaySets : UpdateBay(b, set)
    \/ \E b \in BayIds : DeleteBay(b)
    \/ \E s \in SensorIds, bid \in BayIds \cup {NULL}, g \in PointInputs : InsertSensor(s, bid, g)
    \/ \E s \in SensorIds, set \in SensorSets : UpdateSensor(s, set)
    \/ \E s \in SensorIds : DeleteSensor(s)
    \/ \E v \in ViolationIds, bid \in BayIds, g \in PointInputs : InsertViolation(v, bid, g)
    \/ \E v \in ViolationIds, set \in ViolationSets : UpdateViolation(v, set)
    \/ \E v \in ViolationIds : DeleteViolation(v)
    \/ \E s \in SessionIds, bid \in BayIds, st \in {"active", "paused"} : InsertSession(s, bid, st)
    \/ \E s \in SessionIds, st \in SessionStatusInputs : UpdateSession(s, st)

Spec == Init /\ [][Next]_vars

----------------------------------------------------------------------------
(* Session starts and bay-status changes, request by request.  A request   *)
(* of the backend that reads and then writes is two steps: other requests  *)
(* run between them.                                                       *)

\* PATCH /bays/{bay_id}/status?status=st: the request carries the new
\* status and nothing else
bay_set_status(D, b, st) ==
    LET res == IF b \notin DOMAIN D.bays THEN "NotFound"
               ELSE IF st \notin BayStatuses THEN "CheckViolation"
               ELSE OK
    IN  Outcome(res, D, [D EXCEPT !.bays = SetStatus(D.bays, b, st)])

\* session_id SERIAL
NextSessionId == Cardinality(DOMAIN sessions) + 1

\* the StartSession page of bay b loads the bay; for a bay that is not
\* available it shows "Bay unavailable" and a link back
LoadData(d, b) ==
    /\ pc[d] = "idle"
    /\ b \in DOMAIN bays
    /\ bays[b].status = "available"
    /\ pc' = [pc EXCEPT ![d] = "page"]
    /\ req' = [req EXCEPT ![d] = b]
    /\ UNCHANGED <<db, last, opview, txVars, extVars, impVars, authVars>>

\* the click on "Start Session" posts /sessions/start with the page's bay
HandleStartSession(d) ==
    /\ pc[d] = "page"
    /\ pc' = [pc EXCEPT ![d] = "posted"]
    /\ UNCHANGED <<db, last, req, opview, txVars, extVars, impVars, authVars>>

\* backend, step 3: the bay exists and is available
ValidateStart(d) ==
    /\ pc[d] = "posted"
    /\ LET res == IF req[d] \notin DOMAIN bays THEN "NotFound"
                  ELSE IF bays[req[d]].status # "available" THEN "BadRequest"
                  ELSE OK
       IN  /\ pc' = [pc EXCEPT ![d] = IF res = OK THEN "validated" ELSE "idle"]
           /\ req' = [req EXCEPT ![d] = IF res = OK THEN req[d] ELSE NULL]
           /\ last' = [cols |-> {}, result |-> res]
    /\ UNCHANGED <<db, opview, txVars, extVars, impVars, authVars>>

\* backend, step 4: the session record, status 'active'; its trigger marks
\* the bay occupied
CreateSession(d) ==
    /\ pc[d] = "validated"
    /\ Cardinality(DOMAIN sessions) < MaxSessions
    /\ CommitDb(session_insert(DB, NextSessionId, req[d], "active"), {"bay_id", "status"})
    /\ pc' = [pc EXCEPT ![d] = "idle"]
    /\ req' = [req EXCEPT ![d] = NULL]
    /\ UNCHANGED <<opview, txVars, extVars, impVars, authVars>>

\* POST /sessions/{id}/end, /cancel, /overstay
EndSession(s) ==
    /\ s \in DOMAIN sessions /\ sessions[s].status \in {"active", "overstay"}
    /\ Commit(session_update(DB, s, "completed"), {"status"})

CancelSession(s) ==
    /\ s \in DOMAIN sessions /\ sessions[s].status = "active"
    /\ Commit(session_update(DB, s, "cancelled"), {"status"})

MarkOverstay(s) ==
    /\ s \in DOMAIN sessions /\ sessions[s].status = "active"
    /\ Commit(session_update(DB, s, "overstay"), {"status"})

\* the operator's bay list loads; the row of bay b shows its status
OperatorLoadData(b) ==
    /\ b \in DOMAIN bays
    /\ opview' = [bay |-> b, status |-> bays[b].status]
    /\ opview' # opview
    /\ UNCHANGED <<db, last, pc, req, txVars, extVars, impVars, authVars>>

\* the operator picks a new status in the row's dropdown; the list reloads
HandleStatusChange(newStatus) ==
    /\ opview # NoView
    /\ newStatus # opview.status
    /\ LET out == bay_set_status(DB, opview.bay, newStatus)
       IN  /\ CommitDb(out, {"status"})
           /\ opview' = IF opview.bay \in DOMAIN out.db.bays
                        THEN [bay |-> opview.bay, status |-> out.db.bays[opview.bay].status]
                        ELSE NoView
    /\ UNCHANGED <<pc, req, txVars, extVars, impVars, authVars>>

\* the occupancy simulation gives a bay one of the four statuses
SimulateOccupancy(b, st) ==
    /\ b \in DOMAIN bays
    /\ bays[b].status # st
    /\ Commit(bay_set_status(DB, b, st), {"status"})

\* a zone with one bay, available, and no session yet
InitSession ==
    /\ zones = [z \in {1} |-> [geom |-> Polygon(1, 0, 20, 10)]]
    /\ bays = [b \in {1} |-> [zone_id |-> 1, geom |-> Polygon(12, 2, 16, 4),
                              status |-> "available"]]
    /\ sensors = NoRows
    /\ violations = NoRows
    /\ sessions = NoRows
    /\ last = [cols |-> {}, result |-> OK]
    /\ pc = [d \in Drivers |-> "idle"]
    /\ req = [d \in Drivers |-> NULL]
    /\ opview = NoView
    /\ dep = NoTx
    /\ par = NoTx
    /\ db0 = DB
    /\ NoExt

NextSession ==
    \/ \E b \in BayIds : DeleteBay(b)
    \/ \E d \in Drivers, b \in BayIds : LoadData(d, b)
    \/ \E d \in Drivers : HandleStartSession(d)
    \/ \E d \in Drivers : ValidateStart(d)
    \/ \E d \in Drivers : CreateSession(d)
    \/ \E s \in 1..MaxSessions : EndSession(s)
    \/ \E s \in 1..MaxSessions : CancelSession(s)
    \/ \E s \in 1..MaxSessions : MarkOverstay(s)
    \/ \E b \in BayIds : OperatorLoadData(b)
    \/ \E st \in BayStatuses : HandleStatusChange(st)
    \/ \E b \in BayIds, st \in BayStatuses : SimulateOccupancy(b, st)

SpecSession == InitSession /\ [][NextSession]_vars

----------------------------------------------------------------------------
(* Two transactions at READ COMMITTED, one statement each: dep writes a    *)
(* dependent row, par writes a zone or bay.  A trigger's SELECT sees what  *)
(* is committed when it runs; a transaction's writes become visible to the *)
(* other one at its commit.                                                *)

OpOf(st) == st[1]
IdOf(st) == st[2]

IsInsert(st) == OpOf(st) \in {"bay_insert", "sensor_insert", "violation_insert"}
IsUpdate(st) == OpOf(st) \in {"zone_update", "bay_update", "sensor_update", "violation_update"}
IsDelete(st) == OpOf(st) \in {"zone_delete", "bay_delete"}

TableOf(st) ==
    CASE OpOf(st) \in {"zone_update", "zone_delete"} -> "zones"
      [] OpOf(st) \in {"bay_insert", "bay_update", "bay_delete"} -> "bays"
      [] OpOf(st) \in {"sensor_insert", "sensor_update"} -> "sensors"
      [] OpOf(st) \in {"violation_insert", "violation_update"} -> "violations"

\* the foreign key of a dependent table and the table it references
FkName(t) == IF t = "bays" THEN "zone_id" ELSE "bay_id"
ParentTable(t) == IF t = "bays" THEN "zones" ELSE "bays"

DepStmts ==
    {<<"bay_insert", b, z, g>> : b \in BayIds, z \in ZoneIds, g \in BayGeomInputs}
    \cup {<<"bay_update", b, set>> : b \in BayIds, set \in BaySets}
    \cup {<<"sensor_insert", s, b, g>> : s \in SensorIds, b \in BayIds \cup {NULL}, g \in PointInputs}
    \cup {<<"sensor_update", s, set>> : s \in SensorIds, set \in SensorSets}
    \cup {<<"violation_insert", v, b, g>> : v \in ViolationIds, b \in BayIds, g \in PointInputs}
    \cup {<<"violation_update", v, set>> : v \in ViolationIds, set \in ViolationSets}

ZoneStmts ==
    {<<"zone_update", z, [geom |-> g]>> : z \in ZoneIds, g \in ZoneGeomInputs}
    \cup {<<"zone_delete", z>> : z \in ZoneIds}

BayStmts ==
    {<<"bay_update", b, [geom |-> g]>> : b \in BayIds, g \in BayGeomInputs}
    \cup {<<"bay_delete", b>> : b \in BayIds}

\* the writes to what the row of statement sd references: its zone, or its
\* bay and, by the cascade, the zone of that bay
ParStmtsFor(sd) ==
    IF TableOf(sd) = "bays" THEN ZoneStmts
    ELSE BayStmts \cup {<<"zone_delete", z>> : z \in ZoneIds}

\* the statement run alone against database D; an UPDATE or DELETE of a row
\* that does not exist changes nothing
Exec(st, D) ==
    LET id == IdOf(st)
    IN  IF ~IsInsert(st) /\ id \notin DOMAIN D[TableOf(st)] THEN Outcome(OK, D, D)
        ELSE IF IsInsert(st) /\ id \in DOMAIN D[TableOf(st)]
             THEN Outcome("UniqueViolation", D, D)
        ELSE CASE OpOf(st) = "zone_update" -> zone_update(D, id, st[3].geom)
               [] OpOf(st) = "zone_delete" -> zone_delete(D, id)
               [] OpOf(st) = "bay_insert" -> bay_insert(D, id, st[3], st[4])
               [] OpOf(st) = "bay_update" -> bay_update(D, id, st[3])
               [] OpOf(st) = "bay_delete" -> bay_delete(D, id)
               [] OpOf(st) = "sensor_insert" -> sensor_insert(D, id, st[3], st[4])
               [] OpOf(st) = "sensor_update" -> sensor_update(D, id, st[3])
               [] OpOf(st) = "violation_insert" -> violation_insert(D, id, st[3], st[4])
               [] OpOf(st) = "violation_update" -> violation_update(D, id, st[3])

\* the row an INSERT or UPDATE statement writes, given the database it sees
NewRow(D, st) ==
    IF OpOf(st) = "bay_insert"
    THEN [zone_id |-> st[3], geom |-> st[4], status |-> "available"]
    ELSE IF IsInsert(st) THEN [bay_id |-> st[3], geom |-> st[4]]
    ELSE Assign(D[TableOf(st)][IdOf(st)], st[3])

ColsOf(st) == IF IsInsert(st) THEN {"geom", FkName(TableOf(st))} ELSE DOMAIN st[3]

\* the BEFORE triggers and CHECK constraints of the statement's row
RowChecks(D, st) ==
    CASE TableOf(st) = "zones" ->
            FirstError(<<validate_zone_geometry_type(st[3].geom),
                         ChkGeom("POLYGON", st[3].geom, TRUE)>>)
      [] TableOf(st) = "bays" -> bay_row_checks(D, ColsOf(st), NewRow(D, st))
      [] TableOf(st) = "sensors" -> sensor_row_checks(D, ColsOf(st), NewRow(D, st))
      [] TableOf(st) = "violations" -> violation_row_checks(D, ColsOf(st), NewRow(D, st))

\* the foreign key is looked up when a row is inserted or its key changes
NeedsFkCheck(D, st) ==
    LET fk == NewRow(D, st)[FkName(TableOf(st))]
    IN  /\ fk # NULL
        /\ IsInsert(st) \/ fk # D[TableOf(st)][IdOf(st)][FkName(TableOf(st))]

\* row locks: a foreign-key lookup takes KEY SHARE on the referenced row,
\* an UPDATE of columns that no foreign key references takes NO KEY UPDATE,
\* a DELETE takes FOR UPDATE
LockConflictNoKeyShare(a, b) ==
    {a, b} \in {{"FOR UPDATE"}, {"FOR UPDATE", "NO KEY UPDATE"}, {"NO KEY UPDATE"}}

LockConflict(a, b) ==
    {a, b} \in {{"FOR UPDATE"}, {"FOR UPDATE", "KEY SHARE"},
                {"FOR UPDATE", "NO KEY UPDATE"}, {"NO KEY UPDATE"}}

\* some lock wanted is refused by a lock held: the statement waits
Blocked(wanted, held) ==
    \E w \in wanted, h \in held : w[1] = h[1] /\ w[2] = h[2] /\ LockConflict(w[3], h[3])

\* the lock an UPDATE takes on its row before the row's triggers run
TargetLock(st) ==
    IF IsUpdate(st) THEN {<<TableOf(st), IdOf(st), "NO KEY UPDATE">>} ELSE {}

DepLocks ==
    (IF dep.phase \in {"checked", "locked"} THEN TargetLock(dep.st) ELSE {})
    \cup (IF dep.phase = "locked" /\ dep.ks # NULL
          THEN {<<ParentTable(TableOf(dep.st)), dep.ks, "KEY SHARE">>} ELSE {})

\* the locks of a DELETE that cascades to the bays CB: the deleted rows and
\* the sensors whose bay_id it sets to NULL
DeleteLocks(st, CB) ==
    {<<TableOf(st), IdOf(st), "FOR UPDATE">>}
    \cup {<<"bays", b, "FOR UPDATE">> : b \in CB}
    \cup {<<"sensors", s, "NO KEY UPDATE">> : s \in {x \in DOMAIN sensors : sensors[x].bay_id \in CB}}

ParLocks ==
    IF par.phase # "locked" THEN {}
    ELSE IF IsDelete(par.st) THEN DeleteLocks(par.st, par.cb)
    ELSE TargetLock(par.st)

SetDb(D) ==
    /\ zones' = D.zones
    /\ bays' = D.bays
    /\ sensors' = D.sensors
    /\ violations' = D.violations
    /\ sessions' = D.sessions

Done(tx, res) == [tx EXCEPT !.phase = "done", !.result = res]

\* both statements are sent; an INSERT takes the next id of its SERIAL key,
\* an UPDATE or DELETE names a row that exists when it is sent
BeginTx(sd, sp) ==
    /\ dep.phase = "idle" /\ par.phase = "idle"
    /\ sp \in ParStmtsFor(sd)
    /\ IF IsInsert(sd) THEN IdOf(sd) = Cardinality(DOMAIN DB[TableOf(sd)]) + 1
       ELSE IdOf(sd) \in DOMAIN DB[TableOf(sd)]
    /\ IdOf(sp) \in DOMAIN DB[TableOf(sp)]
    /\ dep' = [NoTx EXCEPT !.st = sd, !.phase = "begun"]
    /\ par' = [NoTx EXCEPT !.st = sp, !.phase = "begun"]
    /\ db0' = DB
    /\ UNCHANGED <<db, last, procVars, extVars, impVars, authVars>>

\* dep locks the row it updates and runs the row's BEFORE triggers
DepCheck ==
    /\ dep.phase = "begun"
    /\ IF IsUpdate(dep.st) /\ IdOf(dep.st) \notin DOMAIN DB[TableOf(dep.st)]
       THEN dep' = Done(dep, OK)
       ELSE /\ ~Blocked(TargetLock(dep.st), ParLocks)
            /\ LET res == RowChecks(DB, dep.st)
               IN  dep' = IF res = OK THEN [dep EXCEPT !.phase = "checked"] ELSE Done(dep, res)
    /\ UNCHANGED <<db, last, procVars, par, db0, extVars, impVars, authVars>>

\* dep's foreign key looks the referenced row up and locks it
DepFk ==
    /\ dep.phase = "checked"
    /\ IF ~NeedsFkCheck(DB, dep.st)
       THEN dep' = [dep EXCEPT !.phase = "locked"]
       ELSE LET pt == ParentTable(TableOf(dep.st))
                p == NewRow(DB, dep.st)[FkName(TableOf(dep.st))]
            IN  /\ ~Blocked({<<pt, p, "KEY SHARE">>}, ParLocks)
                /\ dep' = IF p \in DOMAIN DB[pt]
                          THEN [dep EXCEPT !.phase = "locked", !.ks = p]
                          ELSE Done(dep, "ForeignKeyViolation")
    /\ UNCHANGED <<db, last, procVars, par, db0, extVars, impVars, authVars>>

DepCommit ==
    /\ dep.phase = "locked"
    /\ SetDb([DB EXCEPT ![TableOf(dep.st)] = Put(@, IdOf(dep.st), NewRow(DB, dep.st))])
    /\ dep' = Done(dep, OK)
    /\ UNCHANGED <<last, procVars, par, db0, extVars, impVars, authVars>>

\* the bays a DELETE removes: the bay itself, or the bays of the zone
CascadeBays(st) ==
    IF OpOf(st) = "zone_delete" THEN {b \in DOMAIN bays : bays[b].zone_id = IdOf(st)}
    ELSE {IdOf(st)}

\* par locks its rows and runs its triggers and foreign-key checks
ParCheck ==
    /\ par.phase = "begun"
    /\ IF IdOf(par.st) \notin DOMAIN DB[TableOf(par.st)]
       THEN par' = Done(par, OK)
       ELSE IF IsUpdate(par.st)
       THEN /\ ~Blocked(TargetLock(par.st), DepLocks)
            /\ LET res == RowChecks(DB, par.st)
               IN  par' = IF res = OK THEN [par EXCEPT !.phase = "locked"] ELSE Done(par, res)
       ELSE LET CB == CascadeBays(par.st)
            IN  /\ ~Blocked(DeleteLocks(par.st, CB), DepLocks)
                /\ par' = IF BaysReferenced(DB, CB) THEN Done(par, "ForeignKeyViolation")
                          ELSE [par EXCEPT !.phase = "locked", !.cb = CB]
    /\ UNCHANGED <<db, last, procVars, dep, db0, extVars, impVars, authVars>>

ParCommit ==
    /\ par.phase = "locked"
    /\ IF IsUpdate(par.st)
       THEN SetDb([DB EXCEPT ![TableOf(par.st)] = Put(@, IdOf(par.st), NewRow(DB, par.st))])
       ELSE SetDb([DB EXCEPT !.zones = IF OpOf(par.st) = "zone_delete"
                                       THEN Drop(@, {IdOf(par.st)}) ELSE @,
                             !.bays = Drop(@, par.cb),
                             !.sensors = SensorsSetNull(@, par.cb)])
    /\ par' = Done(par, OK)
    /\ UNCHANGED <<last, procVars, dep, db0, extVars, impVars, authVars>>

\* databases to start from: the zones, a bay, and a sensor and a violation
\* on it or not
TxZones == [z \in ZoneIds |-> [geom |-> IF z = 1 THEN Polygon(1, 0, 20, 10)
                                        ELSE Polygon(2, 0, 20, 10)]]
TxBays ==
    {[b \in {1} |-> [zone_id |-> z, geom |-> g, status |-> "available"]] :
        z \in ZoneIds, g \in {x \in BayGeomInputs : validate_bay_geometry_type(x) = OK}}
TxPoints(B) ==
    {NoRows} \cup {[i \in {1} |-> [bay_id |-> 1, geom |-> g]] :
                      g \in {x \in PointInputs : validate_violation_inside_bay(B, 1, x) = OK
                                                 /\ validate_violation_geometry_type(x) = OK}}

InitTx ==
    /\ zones = TxZones
    /\ bays \in {B \in TxBays : validate_bay_within_zone(zones, B[1].zone_id, B[1].geom) = OK}
    /\ sensors \in TxPoints(bays)
    /\ violations \in TxPoints(bays)
    /\ sessions = NoRows
    /\ last = [cols |-> {}, result |-> OK]
    /\ pc = [d \in Drivers |-> "idle"]
    /\ req = [d \in Drivers |-> NULL]
    /\ opview = NoView
    /\ dep = NoTx
    /\ par = NoTx
    /\ db0 = DB
    /\ NoExt

NextTx ==
    \/ \E sd \in DepStmts, sp \in ZoneStmts \cup BayStmts : BeginTx(sd, sp)
    \/ DepCheck
    \/ DepFk
    \/ DepCommit
    \/ ParCheck
    \/ ParCommit

SpecTx == InitTx /\ [][NextTx]_vars

----------------------------------------------------------------------------
(* Properties of the stored spatial data *)

BayRuleHolds(B, Z, b) ==
    /\ B[b].zone_id \in DOMAIN Z
    /\ BayOverlapsZone(B[b].geom, Z[B[b].zone_id].geom)

SensorRuleHolds(S, B, s) ==
    S[s].bay_id # NULL =>
        /\ S[s].bay_id \in DOMAIN B
        /\ SensorNearBay(S[s].geom, B[S[s].bay_id].geom)

ViolationRuleHolds(V, B, v) ==
    /\ V[v].bay_id \in DOMAIN B
    /\ ViolationInsideBay(V[v].geom, B[V[v].bay_id].geom)

\* C1: every persisted bay lies within its zone's polygon or has at least 90%
\* of its own area inside it, whatever writes were committed before
C1_EveryBayWithinItsZone == \A b \in DOMAIN bays : BayRuleHolds(bays, zones, b)

\* C3: every persisted sensor that references a bay lies inside that bay's
\* polygon or within 3 m of it, whatever writes were committed before
C3_EverySensorNearItsBay == \A s \in DOMAIN sensors : SensorRuleHolds(sensors, bays, s)

\* C4: every persisted violation's point lies inside its bay's polygon or
\* within 2 m of it, whatever writes were committed before
C4_EveryViolationInsideItsBay ==
    \A v \in DOMAIN violations : ViolationRuleHolds(violations, bays, v)

ValidBayGeoms == {g \in BayGeomInputs : validate_bay_geometry_type(g) = OK}
ValidPoints == {g \in PointInputs : validate_sensor_geometry_type(g) = OK}
Refused(D) == [result |-> "ReferencedEntityNotFound", db |-> D]

\* C10: in every reachable database, a bay insert or update whose zone id
\* names no zone, and a sensor or violation insert or update whose bay id
\* names no bay, is refused as a missing reference and stores nothing
C10_MissingReferenceRefused ==
    /\ \A z \in ZoneIds \ DOMAIN zones, g \in ValidBayGeoms :
          /\ \A b \in BayIds \ DOMAIN bays : bay_insert(DB, b, z, g) = Refused(DB)
          /\ \A b \in DOMAIN bays :
                /\ bay_update(DB, b, [zone_id |-> z]) = Refused(DB)
                /\ bay_update(DB, b, [zone_id |-> z, geom |-> g]) = Refused(DB)
    /\ \A b \in BayIds \ DOMAIN bays, g \in ValidPoints :
          /\ \A s \in SensorIds \ DOMAIN sensors : sensor_insert(DB, s, b, g) = Refused(DB)
          /\ \A s \in DOMAIN sensors :
                /\ sensor_update(DB, s, [bay_id |-> b]) = Refused(DB)
                /\ sensor_update(DB, s, [bay_id |-> b, geom |-> g]) = Refused(DB)
          /\ \A v \in ViolationIds \ DOMAIN violations :
                violation_insert(DB, v, b, g) = Refused(DB)
          /\ \A v \in DOMAIN violations :
                /\ violation_update(DB, v, [bay_id |-> b]) = Refused(DB)
                /\ violation_update(DB, v, [bay_id |-> b, geom |-> g]) = Refused(DB)

\* a write has been refused for its missing reference while rows exist
C10_Witness == last.result = "ReferencedEntityNotFound" /\ DOMAIN zones # {}

----------------------------------------------------------------------------
(* Properties of session starts and bay-status changes *)

ActiveOn(b) == {s \in DOMAIN sessions : sessions[s].bay_id = b /\ sessions[s].status = "active"}

\* driver d's start request completes in this step
StartCompletes(d) == pc[d] = "validated" /\ pc'[d] = "idle"

\* C2: of the session starts racing for an available bay, the one that finds
\* it available succeeds and turns it occupied; one that completes after
\* another start has taken the bay fails with a status conflict and changes
\* neither the bay nor the sessions
C2_RacingStartsHaveOneWinner ==
    [][ \A d \in Drivers :
          (StartCompletes(d) /\ req[d] \in DOMAIN bays) =>
             /\ bays[req[d]].status = "available" =>
                   last'.result = OK /\ bays'[req[d]].status = "occupied"
             /\ (bays[req[d]].status = "occupied" /\ ActiveOn(req[d]) # {}) =>
                   /\ last'.result = "StatusConflict"
                   /\ bays' = bays
                   /\ sessions' = sessions ]_vars

StatusChanged(b) ==
    b \in DOMAIN bays /\ b \in DOMAIN bays' /\ bays'[b].status # bays[b].status

\* the status the writer of this step takes bay b to have: a session start
\* an available bay, a session end an occupied one, the operator the status
\* in the row of the bay list; the simulation writes in one statement
ExpectedCurrent(b) ==
    IF \E s \in DOMAIN sessions' \ DOMAIN sessions : sessions'[s].bay_id = b
    THEN "available"
    ELSE IF \E s \in DOMAIN sessions : sessions[s].bay_id = b /\ sessions'[s] # sessions[s]
    THEN "occupied"
    ELSE IF opview' # opview /\ opview.bay = b
    THEN opview.status
    ELSE bays[b].status

\* C8: a step changes a bay's status only when the status the bay has is the
\* one its writer expects, whoever the writer is: session lifecycle,
\* operator or occupancy simulation
C8_StatusChangesOnlyFromExpected ==
    [][ \A b \in BayIds : StatusChanged(b) => ExpectedCurrent(b) = bays[b].status ]_vars

\* C9: every step that creates a session record creates it for a bay that
\* exists and is available in the state the step starts from
C9_SessionOnlyOnAvailableBay ==
    [][ \A s \in DOMAIN sessions' \ DOMAIN sessions :
          /\ sessions'[s].bay_id \in DOMAIN bays
          /\ bays[sessions'[s].bay_id].status = "available" ]_vars

----------------------------------------------------------------------------
(* Properties of concurrent writes *)

\* the databases that whole writes make of db0: neither, one, or both
\* statements in either order
SerialStates ==
    {db0, Exec(dep.st, db0).db, Exec(par.st, db0).db,
     Exec(par.st, Exec(dep.st, db0).db).db, Exec(dep.st, Exec(par.st, db0).db).db}

SerialOutcomes ==
    {Exec(par.st, Exec(dep.st, db0).db).db, Exec(dep.st, Exec(par.st, db0).db).db}

\* C7: while a dependent write and a write to what it references run
\* together, the committed database, which is all a check reads, is always
\* one that whole writes produce; and when both have ended it is the
\* database one of the two serial orders produces
C7_ConcurrentWritesAreSerializable ==
    dep.phase # "idle" =>
        /\ DB \in SerialStates
        /\ (dep.phase = "done" /\ par.phase = "done") => DB \in SerialOutcomes

\* the referenced row has been changed and committed between the check of
\* a dependent write and its commit, so that the check would now refuse it
C7_Witness ==
    /\ dep.phase \in {"checked", "locked"}
    /\ par.phase = "done" /\ par.result = OK
    /\ IdOf(par.st) \in DOMAIN DB[TableOf(par.st)]
    /\ RowChecks(DB, dep.st) # OK


----------------------------------------------------------------------------
(* Writes of any geometry kind to the seven spatial tables *)

GEOMETRY_REQUIREMENTS ==
    [parking_zone |-> "POLYGON", parking_bay |-> "POLYGON", street_segment |-> "LINESTRING",
     sensor |-> "POINT", payment_terminal |-> "POINT", violation |-> "POINT",
     point_of_interest |-> "POINT"]

\* a zone, a bay within it, a ring without area, a street, a line of one
\* vertex twice, a point in the bay, and the empty geometry of each kind
GeomInputs ==
    { Polygon(1, 0, 20, 10), Polygon(12, 2, 16, 4), Polygon(4, 4, 4, 8),
      LineString(0, 0, 5, 5), LineString(3, 3, 3, 3), Point(13, 3),
      Empty("POLYGON"), Empty("LINESTRING"), Empty("POINT") }

\* one id of each table, as many as of the point tables
GeomZoneIds == 1..MaxPointId
GeomBayIds == 1..MaxPointId
StreetIds == 1..MaxPointId
TerminalIds == 1..MaxPointId
PoiIds == 1..MaxPointId

GeomRowCount == RowCount + Cardinality(DOMAIN street_segments)
                + Cardinality(DOMAIN payment_terminals)
                + Cardinality(DOMAIN points_of_interest)

\* the BEFORE trigger and the CHECK constraints of a street_segments row
street_row_checks(g) ==
    FirstError(<<validate_street_geometry_type(g), ChkGeom("LINESTRING", g, TRUE)>>)

\* payment_terminals has no validity constraint
terminal_row_checks(g) ==
    FirstError(<<validate_terminal_geometry_type(g), ChkGeom("POINT", g, FALSE)>>)

\* points_of_interest has no trigger and no validity constraint
poi_row_checks(g) == ChkGeom("POINT", g, FALSE)

\* the result of a write of geometry g to row id of table T
WriteGeom(T, id, row, res) == [result |-> res, table |-> Persist(res, T, Put(T, id, row))]

LastGeom(res) == [cols |-> IF res = OK THEN {} ELSE {"geom"}, result |-> res]

InsertStreetSegment(id, g) ==
    /\ id \notin DOMAIN street_segments
    /\ LET out == WriteGeom(street_segments, id, [geom |-> g], street_row_checks(g))
       IN  street_segments' = out.table /\ last' = LastGeom(out.result)
    /\ UNCHANGED <<db, procVars, txVars, impVars, authVars, payment_terminals, points_of_interest, call>>

UpdateStreetSegment(id, g) ==
    /\ id \in DOMAIN street_segments
    /\ LET out == WriteGeom(street_segments, id, [geom |-> g], street_row_checks(g))
       IN  street_segments' = out.table /\ last' = LastGeom(out.result)
    /\ UNCHANGED <<db, procVars, txVars, impVars, authVars, payment_terminals, points_of_interest, call>>

\* terminals are written without a zone: zone_id is nullable
InsertPaymentTerminal(id, g) ==
    /\ id \notin DOMAIN payment_terminals
    /\ LET out == WriteGeom(payment_terminals, id, [zone_id |-> NULL, geom |-> g],
                            terminal_row_checks(g))
       IN  payment_terminals' = out.table /\ last' = LastGeom(out.result)
    /\ UNCHANGED <<db, procVars, txVars, impVars, authVars, street_segments, points_of_interest, call>>

UpdatePaymentTerminal(id, g) ==
    /\ id \in DOMAIN payment_terminals
    /\ LET out == WriteGeom(payment_terminals, id, [zone_id |-> NULL, geom |-> g],
                            terminal_row_checks(g))
       IN  payment_terminals' = out.table /\ last' = LastGeom(out.result)
    /\ UNCHANGED <<db, procVars, txVars, impVars, authVars, street_segments, points_of_interest, call>>

InsertPointOfInterest(id, g) ==
    /\ id \notin DOMAIN points_of_interest
    /\ LET out == WriteGeom(points_of_interest, id, [geom |-> g], poi_row_checks(g))
       IN  points_of_interest' = out.table /\ last' = LastGeom(out.result)
    /\ UNCHANGED <<db, procVars, txVars, impVars, authVars, street_segments, payment_terminals, call>>

UpdatePointOfInterest(id, g) ==
    /\ id \in DOMAIN points_of_interest
    /\ LET out == WriteGeom(points_of_interest, id, [geom |-> g], poi_row_checks(g))
       IN  points_of_interest' = out.table /\ last' = LastGeom(out.result)
    /\ UNCHANGED <<db, procVars, txVars, impVars, authVars, street_segments, payment_terminals, call>>

NextGeom ==
    \/ \E z \in GeomZoneIds, g \in GeomInputs : GeomRowCount < MaxRows /\ InsertZone(z, g)
    \/ \E z \in GeomZoneIds, g \in GeomInputs : UpdateZone(z, g)
    \/ \E b \in GeomBayIds, z \in GeomZoneIds, g \in GeomInputs :
          GeomRowCount < MaxRows /\ InsertBay(b, z, g)
    \/ \E b \in GeomBayIds, g \in GeomInputs : UpdateBay(b, [geom |-> g])
    \/ \E x \in SensorIds, b \in GeomBayIds \cup {NULL}, g \in GeomInputs :
          GeomRowCount < MaxRows /\ InsertSensor(x, b, g)
    \/ \E x \in SensorIds, g \in GeomInputs : UpdateSensor(x, [geom |-> g])
    \/ \E v \in ViolationIds, b \in GeomBayIds, g \in GeomInputs :
          GeomRowCount < MaxRows /\ InsertViolation(v, b, g)
    \/ \E v \in ViolationIds, g \in GeomInputs : UpdateViolation(v, [geom |-> g])
    \/ \E i \in StreetIds, g \in GeomInputs :
          GeomRowCount < MaxRows /\ InsertStreetSegment(i, g)
    \/ \E i \in StreetIds, g \in GeomInputs : UpdateStreetSegment(i, g)
    \/ \E i \in TerminalIds, g \in GeomInputs :
          GeomRowCount < MaxRows /\ InsertPaymentTerminal(i, g)
    \/ \E i \in TerminalIds, g \in GeomInputs : UpdatePaymentTerminal(i, g)
    \/ \E i \in PoiIds, g \in GeomInputs :
          GeomRowCount < MaxRows /\ InsertPointOfInterest(i, g)
    \/ \E i \in PoiIds, g \in GeomInputs : UpdatePointOfInterest(i, g)

SpecGeom == Init /\ [][NextGeom]_vars

----------------------------------------------------------------------------
(* Properties of the geometry kinds *)

\* the geometries of the rows of table T
GeomsOf(T) == {T[i].geom : i \in DOMAIN T}

WellFormed(g) == ~ST_IsEmpty(g) /\ ST_IsValid(g)

\* C12: every persisted geometry, of every entity kind, is non-empty and
\* structurally valid; no write of an empty or invalid geometry is persisted
C12_PersistedGeometryIsWellFormed ==
    \A T \in {zones, bays, street_segments, sensors, payment_terminals, violations,
               points_of_interest} :
        \A g \in GeomsOf(T) : WellFormed(g)

----------------------------------------------------------------------------
(* Properties of the lifetime of a violation *)

\* C13: once a violation has been created its point geometry never changes:
\* no step leaves a stored violation with a geometry other than the one it had
C13_ViolationGeometryNeverChanges ==
    [][\A v \in DOMAIN violations \cap DOMAIN violations' :
          violations'[v].geom = violations[v].geom]_vars

----------------------------------------------------------------------------
(* Bay counts and bay layouts.  The layouts are drawn on a grid of half     *)
(* metres, so that a bay of 2.5 m x 5 m has integer corners; a square metre *)
(* is four squares of the grid.                                             *)

SqMPerSpot == 15        \* ~15 sq meters per parking spot
SmallZoneSqM == 100     \* at or below this area the count is drawn at random
MinBays == 3
MostBays == 50
RandomSpan == 6         \* Math.floor(Math.random() * 6) is 0..5

\* generateBayCounts(areaSqM): r is Math.floor(Math.random() * 6) and rate
\* the occupancy rate in thousandths, 200 to 799
generateBayCountsNoCap(areaSqM, r, rate) ==
    LET total == IF areaSqM > SmallZoneSqM
                 THEN Max(areaSqM \div SqMPerSpot, MinBays)
                 ELSE r + MinBays
        occupied == (total * rate) \div 1000
    IN  [total |-> total, occupied |-> occupied, available |-> total - occupied]

generateBayCounts(areaSqM, r, rate) ==
    LET total == IF areaSqM > SmallZoneSqM
                 THEN Min(Max(areaSqM \div SqMPerSpot, MinBays), MostBays)
                 ELSE r + MinBays
        occupied == (total * rate) \div 1000
    IN  [total |-> total, occupied |-> occupied, available |-> total - occupied]

\* areas around the thresholds of the estimate, in square metres
AreaInputs == {0, 30, 44, 45, 100, 101, 149, 150, 195, 749, 750, 765, 1500}
RandomInputs == 0..(RandomSpan - 1)
RateInputs == {200, 500, 799}

\* one call is made, with any of the inputs
GenerateBayCounts(areaSqM, r, rate) ==
    /\ call = NoCall
    /\ call' = [fn |-> "generateBayCounts", args |-> <<areaSqM, r, rate>>,
                result |-> generateBayCounts(areaSqM, r, rate)]
    /\ UNCHANGED <<db, last, procVars, txVars, impVars, authVars, street_segments, payment_terminals,
                   points_of_interest>>

\* generate_bays(zone, capacity_hint)

BAY_WIDTH == 5          \* 2.5 m
BAY_LENGTH == 10        \* 5 m
PERIMETER_STEP == 12    \* 6 m
NoHint == -1

AreaZoneTypes == {"lot", "garage"}
BoundaryZoneTypes == {"on_street", "off_street"}

\* the area of a zone drawn on the half-metre grid, in whole square metres
ZoneAreaSqM(zone) == ST_Area(zone) \div 4

\* step 1: the capacity hint, or the estimate from the area
ResolveTarget(zone, hint, r) ==
    IF hint # NoHint THEN hint ELSE generateBayCounts(ZoneAreaSqM(zone), r, 500).total

\* the first n elements of sequence q
Truncate(q, n) == SubSeq(q, 1, Min(Len(q), n))

\* step 2: the cells of a grid that covers the bounding rectangle, in
\* row-major order, and of them those whose centroid is inside the zone
GridCells(zone) ==
    LET cols == (zone.x2 - zone.x1 + BAY_WIDTH - 1) \div BAY_WIDTH
        rows == (zone.y2 - zone.y1 + BAY_LENGTH - 1) \div BAY_LENGTH
        cell(i) == LET c == (i - 1) % cols
                       w == (i - 1) \div cols
                   IN  Polygon(zone.x1 + c * BAY_WIDTH, zone.y1 + w * BAY_LENGTH,
                               zone.x1 + (c + 1) * BAY_WIDTH, zone.y1 + (w + 1) * BAY_LENGTH)
    IN  [i \in 1..(cols * rows) |-> cell(i)]

CentroidInside(cell, zone) ==
    /\ 2 * zone.x1 < cell.x1 + cell.x2 /\ cell.x1 + cell.x2 < 2 * zone.x2
    /\ 2 * zone.y1 < cell.y1 + cell.y2 /\ cell.y1 + cell.y2 < 2 * zone.y2

GridLayout(zone) == SelectSeq(GridCells(zone), LAMBDA cell : CentroidInside(cell, zone))

\* step 3: a bay tangent to the boundary, on its inner side, at arc length a
\* from the first corner, walking the four edges in turn
PerimeterBay(zone, a) ==
    LET W == zone.x2 - zone.x1
        H == zone.y2 - zone.y1
    IN  IF a < W
        THEN Polygon(zone.x1 + a, zone.y1, zone.x1 + a + BAY_LENGTH, zone.y1 + BAY_WIDTH)
        ELSE IF a < W + H
        THEN Polygon(zone.x2 - BAY_WIDTH, zone.y1 + (a - W),
                     zone.x2, zone.y1 + (a - W) + BAY_LENGTH)
        ELSE IF a < 2 * W + H
        THEN Polygon(zone.x2 - (a - W - H) - BAY_LENGTH, zone.y2 - BAY_WIDTH,
                     zone.x2 - (a - W - H), zone.y2)
        ELSE Polygon(zone.x1, zone.y2 - (a - 2 * W - H) - BAY_LENGTH,
                     zone.x1 + BAY_WIDTH, zone.y2 - (a - 2 * W - H))

PerimeterLayout(zone) ==
    LET perimeter == 2 * ((zone.x2 - zone.x1) + (zone.y2 - zone.y1))
        steps == (perimeter + PERIMETER_STEP - 1) \div PERIMETER_STEP
    IN  [k \in 1..steps |-> PerimeterBay(zone, (k - 1) * PERIMETER_STEP)]

\* as PassesBayChecks, with the check of the geometry alone
PassesBayChecksGeomOnly(zone, g) == validate_bay_geometry_type(g) = OK

\* step 6: the checks an INSERT of the bay into the zone's table runs
PassesBayChecks(zone, g) ==
    LET D == [DB EXCEPT !.zones = (1 :> [geom |-> zone])]
    IN  bay_row_checks(D, {"geom", "zone_id"},
                       [zone_id |-> 1, geom |-> g, status |-> "available"]) = OK

\* as generate_bays, but the layout is not truncated to the target
generate_bays_untruncated(zone, zone_type, hint, r) ==
    LET layout == IF zone_type \in AreaZoneTypes THEN GridLayout(zone)
                  ELSE PerimeterLayout(zone)
    IN  IF ~ST_IsValid(zone) \/ ST_Area(zone) = 0 THEN <<>>
        ELSE SelectSeq(layout, LAMBDA g : PassesBayChecks(zone, g))

generate_bays(zone, zone_type, hint, r) ==
    LET target == ResolveTarget(zone, hint, r)
        layout == IF zone_type \in AreaZoneTypes THEN GridLayout(zone)
                  ELSE PerimeterLayout(zone)
    IN  IF ~ST_IsValid(zone) \/ ST_Area(zone) = 0 THEN <<>>
        ELSE SelectSeq(Truncate(layout, target), LAMBDA g : PassesBayChecks(zone, g))

\* zones of 50 m x 30 m, 11.5 m x 17 m, 6 m x 10 m, 4 m x 12.5 m and a ring
\* without area
GenZoneInputs ==
    { Polygon(0, 0, 100, 60), Polygon(0, 0, 23, 34), Polygon(0, 0, 12, 20),
      Polygon(0, 0, 8, 25), Polygon(4, 4, 4, 8) }
HintInputs == {NoHint, 0, 1, 4, 60}

GenerateBays(zone, zone_type, hint, r) ==
    /\ call = NoCall
    /\ call' = [fn |-> "generate_bays", args |-> <<zone, zone_type, hint, r>>,
                result |-> generate_bays(zone, zone_type, hint, r)]
    /\ UNCHANGED <<db, last, procVars, txVars, impVars, authVars, street_segments, payment_terminals,
                   points_of_interest>>

NextGen ==
    \/ \E a \in AreaInputs, r \in RandomInputs, rate \in RateInputs : GenerateBayCounts(a, r, rate)
    \/ \E zone \in GenZoneInputs, t \in AreaZoneTypes \cup BoundaryZoneTypes,
          hint \in HintInputs, r \in RandomInputs : GenerateBays(zone, t, hint, r)

SpecGen == Init /\ [][NextGen]_vars

----------------------------------------------------------------------------
(* Properties of the bay counts and layouts *)

\* a layout has been generated; its arguments
Generated == call.fn = "generate_bays"
GenZone == call.args[1]
GenTarget == ResolveTarget(call.args[1], call.args[3], call.args[4])

\* C14: every bay generate_bays returns, by the grid strategy and by the
\* perimeter strategy, is a valid polygon that lies within its zone or
\* overlaps it by at least 90% of its area
C14_GeneratedBaysAreWithinTheirZone ==
    Generated =>
        \A i \in 1..Len(call.result) :
            LET g == call.result[i]
            IN  /\ GeometryType(g) = "POLYGON" /\ ST_SRID(g) = SRID /\ ST_IsValid(g)
                /\ \/ ST_Within(g, GenZone)
                   \/ 10 * IntersectionArea(g, GenZone) >= 9 * ST_Area(g)

\* a layout of which some bays were kept and at least one, placed with its
\* centroid in the zone but less than 90% of its area, was not
C14_Witness ==
    /\ Generated /\ Len(call.result) > 0
    /\ call.args[2] \in AreaZoneTypes
    /\ Len(call.result) < Len(Truncate(GridLayout(GenZone), GenTarget))

\* C15: generate_bays returns at most as many bays as the resolved target
C15_AtMostTargetBays == Generated => Len(call.result) <= GenTarget

\* the layout had more places than the target and was cut to it
C15_Witness ==
    /\ Generated /\ Len(call.result) = GenTarget /\ GenTarget > 0
    /\ Len(generate_bays_untruncated(call.args[1], call.args[2], call.args[3], call.args[4]))
           > GenTarget

----------------------------------------------------------------------------
(* Spatial queries: pure reads of the zones and bays *)

\* a large zone with two bays, a small zone with one bay that may be
\* inactive, a zone without bays, and a zone beyond the first
QueryZones(active2) ==
    (1 :> [geom |-> Polygon(0, 0, 40, 40), is_active |-> TRUE])
    @@ (2 :> [geom |-> Polygon(62, 62, 102, 102), is_active |-> active2])
    @@ (3 :> [geom |-> Polygon(0, 60, 20, 80), is_active |-> TRUE])

QueryBays(st) ==
    (1 :> [zone_id |-> 1, geom |-> Polygon(0, 0, 5, 2), status |-> st[1]])
    @@ (2 :> [zone_id |-> 1, geom |-> Polygon(34, 36, 39, 38), status |-> st[2]])
    @@ (3 :> [zone_id |-> 2, geom |-> Polygon(62, 62, 67, 64), status |-> st[3]])

CenterInputs == {Point(50, 50), Point(36, 37), Point(10, 10)}
RadiusInputs == {0, 5, 15, 20, 40, 300}

RECURSIVE SortByKey(_, _)
\* the elements of S in ascending order of key, equal keys in order of id
SortByKey(S, key) ==
    IF S = {} THEN <<>>
    ELSE LET m == CHOOSE x \in S :
                      \A y \in S : key[x] < key[y] \/ (key[x] = key[y] /\ x <= y)
         IN  <<m>> \o SortByKey(S \ {m}, key)

\* as find_available_bays_near, whatever the status of the bay
find_bays_near_any_status(D, center, radius_meters) ==
    LET rows == {b \in DOMAIN D.bays :
                    /\ D.bays[b].zone_id \in DOMAIN D.zones
                    /\ D.zones[D.bays[b].zone_id].is_active
                    /\ ST_DWithin(center, D.bays[b].geom, radius_meters)}
        distance == [b \in rows |-> Distance2(center, D.bays[b].geom)]
        order == SortByKey(rows, distance)
    IN  [i \in 1..Len(order) |->
            [id |-> order[i], status |-> D.bays[order[i]].status,
             distance_meters |-> distance[order[i]]]]

\* find_available_bays_near(lat, lng, radius_meters); distances are squared
find_available_bays_near(D, center, radius_meters) ==
    LET rows == {b \in DOMAIN D.bays :
                    /\ D.bays[b].zone_id \in DOMAIN D.zones
                    /\ D.bays[b].status = "available"
                    /\ D.zones[D.bays[b].zone_id].is_active
                    /\ ST_DWithin(center, D.bays[b].geom, radius_meters)}
        distance == [b \in rows |-> Distance2(center, D.bays[b].geom)]
        order == SortByKey(rows, distance)
    IN  [i \in 1..Len(order) |->
            [id |-> order[i], status |-> D.bays[order[i]].status,
             distance_meters |-> distance[order[i]]]]

\* getPolygonCenter(geom): the mean of the coordinates of the ring, its
\* closing coordinate included; five times the mean, for a ring that starts
\* and ends at (x1, y1)
getPolygonCenter5(g) == [x |-> 3 * g.x1 + 2 * g.x2, y |-> 3 * g.y1 + 2 * g.y2]

\* haversineDistance from the search point to the centre, squared, 25 fold
CenterDistance25(center, g) ==
    LET c == getPolygonCenter5(g)
    IN  (5 * center.x1 - c.x) * (5 * center.x1 - c.x)
        + (5 * center.y1 - c.y) * (5 * center.y1 - c.y)

getPolygonAreaSqM(g) == ST_Area(g)

\* the bay counts of a zone: of its bays, or generated when it has none
BayCountsOf(D, z, r, rate) ==
    LET zoneBays == {b \in DOMAIN D.bays : D.bays[b].zone_id = z}
    IN  IF Cardinality(zoneBays) > 0
        THEN [total |-> Cardinality(zoneBays),
              available |-> Cardinality({b \in zoneBays : D.bays[b].status = "available"}),
              occupied |-> Cardinality({b \in zoneBays : D.bays[b].status = "occupied"})]
        ELSE generateBayCounts(getPolygonAreaSqM(D.zones[z].geom), r, rate)

\* searchAtPoint(lat, lng) with the page's searchRadius and showOnlyAvailable
searchAtPoint(D, center, searchRadius, showOnlyAvailable, r, rate) ==
    LET inRadius == {z \in DOMAIN D.zones :
                        /\ D.zones[z].geom.kind = "POLYGON"
                        /\ CenterDistance25(center, D.zones[z].geom)
                              <= 25 * searchRadius * searchRadius}
        distance == [z \in inRadius |-> CenterDistance25(center, D.zones[z].geom)]
        sorted == SortByKey(inRadius, distance)
        rows == [i \in 1..Len(sorted) |->
                    [id |-> sorted[i], distance_meters |-> distance[sorted[i]],
                     bay_counts |-> BayCountsOf(D, sorted[i], r, rate)]]
    IN  IF showOnlyAvailable THEN SelectSeq(rows, LAMBDA z : z.bay_counts.available > 0)
        ELSE rows

\* as calculate_zone_occupancy, with all the bays of the zone as denominator
calculate_zone_occupancy_of_all(D, p_zone_id) ==
    LET zb == {b \in DOMAIN D.bays : D.bays[b].zone_id = p_zone_id}
        count(st) == Cardinality({b \in zb : D.bays[b].status = st})
        open == Cardinality(zb)
    IN  [total_bays |-> Cardinality(zb), available_bays |-> count("available"),
         occupied_bays |-> count("occupied"), reserved_bays |-> count("reserved"),
         closed_bays |-> count("closed"),
         occupancy_percent |-> IF open > 0
                               THEN (2 * 10000 * count("occupied") + open) \div (2 * open)
                               ELSE 0]

\* calculate_zone_occupancy(p_zone_id); occupancy_percent is in hundredths
\* of a percent, ROUND(x, 2) being the nearest hundredth, halves upwards
calculate_zone_occupancy(D, p_zone_id) ==
    LET zb == {b \in DOMAIN D.bays : D.bays[b].zone_id = p_zone_id}
        count(st) == Cardinality({b \in zb : D.bays[b].status = st})
        open == Cardinality({b \in zb : D.bays[b].status # "closed"})
    IN  [total_bays |-> Cardinality(zb), available_bays |-> count("available"),
         occupied_bays |-> count("occupied"), reserved_bays |-> count("reserved"),
         closed_bays |-> count("closed"),
         occupancy_percent |-> IF open > 0
                               THEN (2 * 10000 * count("occupied") + open) \div (2 * open)
                               ELSE 0]

\* one query is made, with any of the inputs
FindAvailableBaysNear(center, radius) ==
    /\ call = NoCall
    /\ call' = [fn |-> "find_available_bays_near", args |-> <<center, radius>>,
                result |-> find_available_bays_near(DB, center, radius)]
    /\ UNCHANGED <<db, last, procVars, txVars, impVars, authVars, street_segments, payment_terminals,
                   points_of_interest>>

SearchAtPoint(center, radius, showOnlyAvailable, r, rate) ==
    /\ call = NoCall
    /\ call' = [fn |-> "searchAtPoint", args |-> <<center, radius, showOnlyAvailable, r, rate>>,
                result |-> searchAtPoint(DB, center, radius, showOnlyAvailable, r, rate)]
    /\ UNCHANGED <<db, last, procVars, txVars, impVars, authVars, street_segments, payment_terminals,
                   points_of_interest>>

CalculateZoneOccupancy(z) ==
    /\ call = NoCall
    /\ call' = [fn |-> "calculate_zone_occupancy", args |-> <<z>>,
                result |-> calculate_zone_occupancy(DB, z)]
    /\ UNCHANGED <<db, last, procVars, txVars, impVars, authVars, street_segments, payment_terminals,
                   points_of_interest>>

InitQuery ==
    /\ zones \in {QueryZones(a) : a \in BOOLEAN}
    /\ bays \in {QueryBays(st) : st \in [1..3 -> BayStatuses]}
    /\ sensors = NoRows
    /\ violations = NoRows
    /\ sessions = NoRows
    /\ last = [cols |-> {}, result |-> OK]
    /\ pc = [d \in Drivers |-> "idle"]
    /\ req = [d \in Drivers |-> NULL]
    /\ opview = NoView
    /\ dep = NoTx
    /\ par = NoTx
    /\ db0 = DB
    /\ NoExt

NextQuery ==
    \/ \E c \in CenterInputs, radius \in RadiusInputs : FindAvailableBaysNear(c, radius)
    \/ \E c \in CenterInputs, radius \in RadiusInputs, only \in BOOLEAN,
          r \in {0, RandomSpan - 1}, rate \in RateInputs : SearchAtPoint(c, radius, only, r, rate)
    \/ \E z \in 1..4 : CalculateZoneOccupancy(z)

SpecQuery == InitQuery /\ [][NextQuery]_vars

----------------------------------------------------------------------------
(* Properties of the spatial queries *)

QueryCenter == call.args[1]
QueryRadius == call.args[2]

\* the distance from the centre of the query to the entity of result row i,
\* squared
TrueDistance2(i) ==
    IF call.fn = "find_available_bays_near"
    THEN Distance2(QueryCenter, bays[call.result[i].id].geom)
    ELSE Distance2(QueryCenter, zones[call.result[i].id].geom)

C18_ResultsInDistanceOrder ==
    call.fn \in {"find_available_bays_near", "searchAtPoint"} =>
        \A i \in 1..Len(call.result), j \in 1..Len(call.result) :
            i < j => TrueDistance2(i) <= TrueDistance2(j)

\* C18 for the bays of find_available_bays_near alone
BaysInDistanceOrder ==
    call.fn = "find_available_bays_near" =>
        \A i \in 1..Len(call.result), j \in 1..Len(call.result) :
            i < j => TrueDistance2(i) <= TrueDistance2(j)

----------------------------------------------------------------------------
(* Normalisation of imported geometries, on the grid of half metres *)

BUFFER_RADIUS == 5      \* ST_Buffer(geom::geography, 2.5)

\* SQL NULL, and geometries of several parts
NullGeom == [kind |-> "NULL"]
Multi(k, parts) == [kind |-> k, srid |-> SRID, members |-> parts, empty |-> FALSE]
ST_NumGeometries(g) == Len(g.members)
ST_GeometryN(g, i) == g.members[i]

\* ST_Length of a line of two vertices, squared
Length2(g) ==
    IF g.kind # "LINESTRING" \/ g.empty THEN 0
    ELSE (g.x2 - g.x1) * (g.x2 - g.x1) + (g.y2 - g.y1) * (g.y2 - g.y1)

RECURSIVE Largest(_, _, _, _, _, _)
\* FOR i IN 1..n LOOP: the member of the kind with the greatest measure, the
\* first of them when several are as great; result starts as NULL and
\* max as 0
Largest(g, kind, byArea, i, max, result) ==
    IF i > ST_NumGeometries(g) THEN result
    ELSE LET current_geom == ST_GeometryN(g, i)
             current == IF byArea THEN ST_Area(current_geom) ELSE Length2(current_geom)
         IN  IF GeometryType(current_geom) = kind /\ current > max
             THEN Largest(g, kind, byArea, i + 1, current, current_geom)
             ELSE Largest(g, kind, byArea, i + 1, max, result)

\* ST_Buffer of a point: a polygon around it
ST_Buffer(g) ==
    Polygon(g.x1 - BUFFER_RADIUS, g.y1 - BUFFER_RADIUS,
            g.x1 + BUFFER_RADIUS, g.y1 + BUFFER_RADIUS)

\* as normalize_to_polygon, without the case of a geometry that is a Polygon
normalize_to_polygon_no_identity(geom) ==
    IF geom = NullGeom THEN NullGeom
    ELSE IF GeometryType(geom) = "MULTIPOLYGON"
    THEN Largest(geom, "POLYGON", TRUE, 1, 0, NullGeom)
    ELSE IF GeometryType(geom) = "GEOMETRYCOLLECTION"
    THEN Largest(geom, "POLYGON", TRUE, 1, 0, NullGeom)
    ELSE IF GeometryType(geom) = "POINT" THEN ST_Buffer(geom)
    ELSE NullGeom

normalize_to_polygon(geom) ==
    IF geom = NullGeom THEN NullGeom
    ELSE IF GeometryType(geom) = "POLYGON" THEN geom
    ELSE IF GeometryType(geom) = "MULTIPOLYGON"
    THEN Largest(geom, "POLYGON", TRUE, 1, 0, NullGeom)
    ELSE IF GeometryType(geom) = "GEOMETRYCOLLECTION"
    THEN Largest(geom, "POLYGON", TRUE, 1, 0, NullGeom)
    ELSE IF GeometryType(geom) = "POINT" THEN ST_Buffer(geom)
    ELSE NullGeom

normalize_to_linestring(geom) ==
    IF geom = NullGeom THEN NullGeom
    ELSE IF GeometryType(geom) = "LINESTRING" THEN geom
    ELSE IF GeometryType(geom) = "MULTILINESTRING"
    THEN Largest(geom, "LINESTRING", FALSE, 1, 0, NullGeom)
    ELSE IF GeometryType(geom) = "GEOMETRYCOLLECTION"
    THEN Largest(geom, "LINESTRING", FALSE, 1, 0, NullGeom)
    ELSE NullGeom

\* the parts of a geometry, and the dimension of a part: a ring without
\* area and a line without length count as points
Parts(g) == IF g.kind \in {"POLYGON", "LINESTRING", "POINT"} THEN <<g>> ELSE g.members
Dim(part) ==
    IF ST_Area(part) > 0 THEN 2 ELSE IF Length2(part) > 0 THEN 1 ELSE 0

\* the integer square root
ISqrt(n) == CHOOSE r \in 0..n : r * r <= n /\ n < (r + 1) * (r + 1)

\* the weight of a part in the centroid: its area, its length, or one
Weight(part) ==
    IF Dim(part) = 2 THEN ST_Area(part)
    ELSE IF Dim(part) = 1 THEN ISqrt(Length2(part)) ELSE 1

RECURSIVE WeightedSum(_, _, _, _)
\* the sum over the parts of dimension d, from part i on, of the weight
\* (axis "w") or of the weight times twice the middle on axis "x" or "y"
WeightedSum(parts, d, axis, i) ==
    IF i > Len(parts) THEN 0
    ELSE LET part == parts[i]
             term == IF Dim(part) # d THEN 0
                     ELSE IF axis = "w" THEN Weight(part)
                     ELSE IF axis = "x" THEN Weight(part) * (part.x1 + part.x2)
                     ELSE Weight(part) * (part.y1 + part.y2)
         IN  term + WeightedSum(parts, d, axis, i + 1)

\* ST_Centroid: the weighted middle of the parts of the highest dimension;
\* POINT EMPTY of an empty geometry
ST_Centroid(g) ==
    IF g.empty \/ Len(Parts(g)) = 0 THEN Empty("POINT")
    ELSE LET parts == Parts(g)
             d == CHOOSE k \in 0..2 : /\ \E i \in 1..Len(parts) : Dim(parts[i]) = k
                                      /\ \A i \in 1..Len(parts) : Dim(parts[i]) <= k
             w == WeightedSum(parts, d, "w", 1)
         IN  Point(WeightedSum(parts, d, "x", 1) \div (2 * w),
                   WeightedSum(parts, d, "y", 1) \div (2 * w))

\* as normalize_to_point, with the centroid of polygons alone
normalize_to_point_of_polygons(geom) ==
    IF geom = NullGeom THEN NullGeom
    ELSE IF GeometryType(geom) = "POINT" THEN geom
    ELSE IF GeometryType(geom) = "POLYGON" THEN ST_Centroid(geom)
    ELSE NullGeom

normalize_to_point(geom) ==
    IF geom = NullGeom THEN NullGeom
    ELSE IF GeometryType(geom) = "POINT" THEN geom
    ELSE ST_Centroid(geom)

\* geometries of one part: polygons, a ring without area, lines and points
SimpleInputs ==
    {Polygon(a, b, a + w, b + h) : a \in {0, 4}, b \in {0, 2}, w \in {2, 4}, h \in {0, 6}}
    \cup {LineString(a, 0, c, d) : a \in {0, 4}, c \in {0, 8}, d \in {0, 6}}
    \cup {Point(a, b) : a \in {0, 4}, b \in {0, 2}}
    \cup {Empty("POLYGON"), Empty("LINESTRING"), Empty("POINT")}

\* geometries of several parts, and NULL
NormInputs ==
    SimpleInputs
    \cup {Multi("MULTIPOLYGON", <<Polygon(0, 0, 2, 6), Polygon(4, 0, 8, 6), Polygon(0, 2, 4, 8)>>),
          Multi("MULTIPOLYGON", <<Polygon(0, 0, 2, 0)>>),
          Multi("MULTIPOLYGON", <<Polygon(0, 0, 2, 0), Polygon(4, 2, 6, 8)>>),
          Multi("MULTIPOLYGON", <<>>),
          Multi("MULTILINESTRING", <<LineString(0, 0, 0, 6), LineString(0, 0, 8, 6)>>),
          Multi("GEOMETRYCOLLECTION", <<Polygon(0, 0, 4, 6), Point(0, 0), Polygon(4, 0, 8, 6)>>),
          Multi("GEOMETRYCOLLECTION", <<Polygon(4, 0, 8, 0), LineString(0, 0, 8, 6)>>),
          Multi("GEOMETRYCOLLECTION", <<Point(4, 2), LineString(0, 0, 8, 6), Polygon(0, 0, 4, 6)>>),
          Multi("GEOMETRYCOLLECTION", <<Point(4, 2)>>),
          Multi("MULTIPOINT", <<Point(0, 0), Point(4, 2)>>),
          NullGeom}

\* one call is made, with any of the inputs
NormalizeToPolygon(geom) ==
    /\ call = NoCall
    /\ call' = [fn |-> "normalize_to_polygon", args |-> <<geom>>,
                result |-> normalize_to_polygon(geom)]
    /\ UNCHANGED <<db, last, procVars, txVars, impVars, authVars, street_segments, payment_terminals,
                   points_of_interest>>

NormalizeToLineString(geom) ==
    /\ call = NoCall
    /\ call' = [fn |-> "normalize_to_linestring", args |-> <<geom>>,
                result |-> normalize_to_linestring(geom)]
    /\ UNCHANGED <<db, last, procVars, txVars, impVars, authVars, street_segments, payment_terminals,
                   points_of_interest>>

NormalizeToPoint(geom) ==
    /\ call = NoCall
    /\ call' = [fn |-> "normalize_to_point", args |-> <<geom>>,
                result |-> normalize_to_point(geom)]
    /\ UNCHANGED <<db, last, procVars, txVars, impVars, authVars, street_segments, payment_terminals,
                   points_of_interest>>

NextNorm ==
    \/ \E g \in NormInputs : NormalizeToPolygon(g)
    \/ \E g \in NormInputs : NormalizeToLineString(g)
    \/ \E g \in NormInputs : NormalizeToPoint(g)

SpecNorm == Init /\ [][NextNorm]_vars

----------------------------------------------------------------------------
(* Properties of the normalisation *)

\* C20: each normalizer is the identity on input of its target kind:
\* normalize_to_polygon on a simple Polygon, normalize_to_linestring on a
\* LineString, normalize_to_point on a Point
C20_NormalizersAreIdentityOnTargetKind ==
    LET geom == call.args[1]
    IN  /\ (call.fn = "normalize_to_polygon" /\ geom # NullGeom
            /\ geom.kind = "POLYGON" /\ ST_IsValid(geom)) => call.result = geom
        /\ (call.fn = "normalize_to_linestring" /\ geom # NullGeom
            /\ geom.kind = "LINESTRING") => call.result = geom
        /\ (call.fn = "normalize_to_point" /\ geom # NullGeom
            /\ geom.kind = "POINT") => call.result = geom

\* normalize_to_polygon has been called with a simple polygon
C20_Witness ==
    /\ call.fn = "normalize_to_polygon"
    /\ call.args[1] = Polygon(4, 2, 8, 8)
    /\ call.result.kind = "POLYGON"

\* the member polygons of a geometry of several parts
MemberPolygons(geom) ==
    {i \in 1..ST_NumGeometries(geom) : ST_GeometryN(geom, i).kind = "POLYGON"}

\* the call is normalize_to_polygon of a multi-polygon or a geometry collection
OfSeveralParts ==
    /\ call.fn = "normalize_to_polygon"
    /\ call.args[1] # NullGeom
    /\ call.args[1].kind \in {"MULTIPOLYGON", "GEOMETRYCOLLECTION"}

\* the result is a member polygon of the input and no member polygon is larger
ResultIsLargestMember ==
    LET geom == call.args[1]
    IN  /\ \E i \in MemberPolygons(geom) : ST_GeometryN(geom, i) = call.result
        /\ \A j \in MemberPolygons(geom) :
              ST_Area(ST_GeometryN(geom, j)) <= ST_Area(call.result)

\* C21: of a multi-polygon or a geometry collection with a member polygon,
\* normalize_to_polygon returns a member polygon, and no other member polygon
\* has a larger area
C21_LargestMemberPolygonIsReturned ==
    (OfSeveralParts /\ MemberPolygons(call.args[1]) # {}) => ResultIsLargestMember

\* C21 for the inputs that have a member polygon with an area
LargestMemberWithAreaIsReturned ==
    (OfSeveralParts /\ \E i \in MemberPolygons(call.args[1]) :
                          ST_Area(ST_GeometryN(call.args[1], i)) > 0)
        => ResultIsLargestMember

\* the smallest rectangle around the parts of a geometry holds the point
InBoundingBox(pt, g) ==
    \E i \in 1..Len(Parts(g)), j \in 1..Len(Parts(g)),
       k \in 1..Len(Parts(g)), l \in 1..Len(Parts(g)) :
        /\ Min(Parts(g)[i].x1, Parts(g)[i].x2) <= pt.x1
        /\ pt.x1 <= Max(Parts(g)[j].x1, Parts(g)[j].x2)
        /\ Min(Parts(g)[k].y1, Parts(g)[k].y2) <= pt.y1
        /\ pt.y1 <= Max(Parts(g)[l].y1, Parts(g)[l].y2)

\* C22: normalize_to_point of a geometry never returns NULL: it returns the
\* input when that is a Point, and otherwise a Point, which lies within the
\* bounds of the input when the input is not empty
C22_NormalizeToPointAlwaysSucceeds ==
    (call.fn = "normalize_to_point" /\ call.args[1] # NullGeom) =>
        LET geom == call.args[1]
        IN  /\ call.result # NullGeom
            /\ call.result.kind = "POINT"
            /\ geom.kind = "POINT" => call.result = geom
            /\ (geom.kind # "POINT" /\ ~geom.empty /\ Len(Parts(geom)) > 0)
                  => /\ ~call.result.empty
                     /\ InBoundingBox(call.result, geom)

\* normalize_to_point of a geometry collection returned the middle of its
\* two polygons
C22_Witness ==
    /\ call.fn = "normalize_to_point"
    /\ call.args[1] = Multi("GEOMETRYCOLLECTION",
                            <<Polygon(0, 0, 4, 6), Point(0, 0), Polygon(4, 0, 8, 6)>>)
    /\ call.result = Point(4, 3)

----------------------------------------------------------------------------
(* The import: staging rows, their transformation to zones and the
   generation of the bays of the imported zones, by runs that may overlap *)

MaxLogRows == 2     \* a batch starts while the log has room for its rows

\* the source identifier of a row: UNIQUE(osm_id, osm_type)
KeyOf(row) == <<row.osm_id, row.osm_type>>

\* the features a fetch may deliver: a polygon, a line, which has no polygon,
\* a multi-polygon, and a ring without area, which no zone may have
FeatureInputs ==
    {[osm_id |-> 1, osm_type |-> "way", geom |-> g] :
        g \in {Polygon(0, 0, 40, 40), LineString(0, 0, 8, 6)}}
    \cup {[osm_id |-> 2, osm_type |-> "way", geom |-> g] :
        g \in {Multi("MULTIPOLYGON", <<Polygon(0, 0, 20, 20), Polygon(60, 0, 100, 40)>>),
               Polygon(0, 0, 2, 0)}}

\* the rows of a table with the key
WithKey(rows, key) == {i \in 1..Len(rows) : KeyOf(rows[i]) = key}

\* INSERT ... ON CONFLICT (osm_id, osm_type) DO UPDATE
Upsert(rows, row) ==
    IF WithKey(rows, KeyOf(row)) = {} THEN Append(rows, row)
    ELSE [i \in 1..Len(rows) |-> IF KeyOf(rows[i]) = KeyOf(row) THEN row ELSE rows[i]]

\* one statement of the loader
LoadStaging(feature) ==
    /\ osm_parking_raw' = Upsert(osm_parking_raw, feature)
    /\ osm_parking_raw' # osm_parking_raw
    /\ UNCHANGED <<db, last, procVars, txVars, extVars, authVars, osm_zones, osm_bays,
                   geometry_conversion_log, runs, locks>>

\* a run starts on a batch: the staging rows to transform, or the imported
\* zones to generate bays for
StartBatch(r, kind) ==
    LET batch == IF kind = "transform" THEN osm_parking_raw ELSE osm_zones
    IN  /\ runs[r].phase \in {"idle", "done"}
        /\ Len(batch) > 0
        /\ kind = "transform" => Len(geometry_conversion_log) + Len(batch) <= MaxLogRows
        /\ runs' = [runs EXCEPT ![r] = [phase |-> "acquire", kind |-> kind, batch |-> batch,
                                        cursor |-> 1, found |-> FALSE]]
        /\ UNCHANGED <<db, last, procVars, txVars, extVars, authVars, osm_parking_raw, osm_zones,
                       osm_bays, geometry_conversion_log, locks>>

\* as LockFree, without the serialization
LockFreeAlways(key) == TRUE

\* work on one source identifier is serialized: no other run holds it
LockFree(key) == key \notin locks

Record(r) == runs[r].batch[runs[r].cursor]

Acquire(r) ==
    /\ runs[r].phase = "acquire"
    /\ LockFree(KeyOf(Record(r)))
    /\ locks' = locks \cup {KeyOf(Record(r))}
    /\ runs' = [runs EXCEPT ![r].phase = "check"]
    /\ UNCHANGED <<db, last, procVars, txVars, extVars, authVars, osm_parking_raw, osm_zones,
                   osm_bays, geometry_conversion_log>>

\* the run looks for what an earlier run made of the source identifier
Check(r) ==
    LET target == IF runs[r].kind = "transform" THEN osm_zones ELSE osm_bays
    IN  /\ runs[r].phase = "check"
        /\ runs' = [runs EXCEPT ![r].phase = "write",
                                ![r].found = WithKey(target, KeyOf(Record(r))) # {}]
        /\ UNCHANGED <<db, last, procVars, txVars, extVars, authVars, osm_parking_raw, osm_zones,
                       osm_bays, geometry_conversion_log, locks>>

\* the outcome of the conversion of a staging row to a zone
Conversion(row) ==
    LET geom == normalize_to_polygon(row.geom)
    IN  IF geom = NullGeom THEN "skipped"
        ELSE IF FirstError(<<validate_zone_geometry_type(geom),
                             ChkGeom("POLYGON", geom, TRUE)>>) # OK
        THEN "error"
        ELSE "success"

LogRow(row, status) ==
    [source_table |-> "osm_parking_raw", osm_id |-> row.osm_id, osm_type |-> row.osm_type,
     original_geom_type |-> GeometryType(row.geom), target_geom_type |-> "POLYGON",
     conversion_status |-> status]

\* as AfterRecord, with a batch that ends at the first record skipped
AfterRecordStopAtSkip(run, status) ==
    IF status = "skipped" THEN [run EXCEPT !.phase = "aborted"]
    ELSE IF run.cursor = Len(run.batch) THEN [run EXCEPT !.phase = "done", !.cursor = @ + 1]
    ELSE [run EXCEPT !.phase = "acquire", !.cursor = @ + 1]

\* the run goes on with the next record, whatever the outcome of this one
AfterRecord(run, status) ==
    IF run.cursor = Len(run.batch) THEN [run EXCEPT !.phase = "done", !.cursor = @ + 1]
    ELSE [run EXCEPT !.phase = "acquire", !.cursor = @ + 1]

\* the run writes the zone of a staging row and its log row
WriteZone(r) ==
    LET row == Record(r)
        status == Conversion(row)
        zone == [osm_id |-> row.osm_id, osm_type |-> row.osm_type,
                 geom |-> normalize_to_polygon(row.geom)]
    IN  /\ runs[r].phase = "write" /\ runs[r].kind = "transform"
        /\ osm_zones' = IF status # "success" THEN osm_zones
                        ELSE IF runs[r].found THEN Upsert(osm_zones, zone)
                        ELSE Append(osm_zones, zone)
        /\ geometry_conversion_log' = Append(geometry_conversion_log, LogRow(row, status))
        /\ runs' = [runs EXCEPT ![r] = AfterRecord(runs[r], status)]
        /\ locks' = locks \ {KeyOf(row)}
        /\ UNCHANGED <<db, last, procVars, txVars, extVars, authVars, osm_parking_raw, osm_bays>>

\* the run generates the bays of an imported zone that has none
WriteBays(r) ==
    LET zone == Record(r)
        set == [osm_id |-> zone.osm_id, osm_type |-> zone.osm_type,
                bays |-> generate_bays(zone.geom, "lot", NoHint, 0)]
    IN  /\ runs[r].phase = "write" /\ runs[r].kind = "generate"
        /\ osm_bays' = IF runs[r].found THEN osm_bays ELSE Append(osm_bays, set)
        /\ runs' = [runs EXCEPT ![r] = AfterRecord(runs[r], "success")]
        /\ locks' = locks \ {KeyOf(zone)}
        /\ UNCHANGED <<db, last, procVars, txVars, extVars, authVars, osm_parking_raw, osm_zones,
                       geometry_conversion_log>>

NextImport ==
    \/ \E f \in FeatureInputs : LoadStaging(f)
    \/ \E r \in Runs, kind \in {"transform", "generate"} : StartBatch(r, kind)
    \/ \E r \in Runs : Acquire(r)
    \/ \E r \in Runs : Check(r)
    \/ \E r \in Runs : WriteZone(r)
    \/ \E r \in Runs : WriteBays(r)

SpecImport == Init /\ [][NextImport]_vars

----------------------------------------------------------------------------
(* Properties of the import *)

\* the records of its batch a run is done with
Processed(r) ==
    {i \in 1..Len(runs[r].batch) :
        \/ i < runs[r].cursor
        \/ i = runs[r].cursor /\ runs[r].phase = "aborted"}

\* C23: every record of a batch whose normalization returned nothing has a
\* row in the conversion log with its source identifier, its original kind,
\* the target kind and the outcome skipped, and a batch ends only when all
\* its records have been processed
C23_SkipsAreLoggedAndNeverFatal ==
    \A r \in Runs :
        /\ runs[r].kind = "transform" =>
              \A i \in Processed(r) :
                  normalize_to_polygon(runs[r].batch[i].geom) = NullGeom =>
                      \E l \in 1..Len(geometry_conversion_log) :
                          geometry_conversion_log[l] = LogRow(runs[r].batch[i], "skipped")
        /\ runs[r].phase \notin {"acquire", "check", "write"} =>
              runs[r].cursor \in {0, Len(runs[r].batch) + 1}

\* a batch is done whose first record was skipped and whose second became a
\* zone
C23_Witness ==
    \E r \in Runs :
        /\ runs[r].phase = "done" /\ runs[r].kind = "transform"
        /\ Len(runs[r].batch) = 2
        /\ Conversion(runs[r].batch[1]) = "skipped"
        /\ Conversion(runs[r].batch[2]) = "success"
        /\ WithKey(osm_zones, KeyOf(runs[r].batch[2])) # {}

\* no two rows of the table have one source identifier
OnePerKey(rows) ==
    \A i \in 1..Len(rows), j \in 1..Len(rows) : KeyOf(rows[i]) = KeyOf(rows[j]) => i = j

\* C24: whatever the runs and their overlap, no two staging rows, no two
\* zones and no two sets of generated bays come from one source identifier
C24_OnePerSourceIdentifier ==
    /\ OnePerKey(osm_parking_raw)
    /\ OnePerKey(osm_zones)
    /\ OnePerKey(osm_bays)

\* both runs work on batches with the same source identifier, one of them
\* waiting for the other, and a zone and its bays have been written
C24_Witness ==
    /\ runs["first"].phase = "write" /\ runs["second"].phase = "acquire"
    /\ KeyOf(Record("first")) = KeyOf(Record("second"))
    /\ runs["first"].kind = runs["second"].kind
    /\ osm_zones # <<>> /\ osm_bays # <<>>

----------------------------------------------------------------------------
(* The web client: the auth store and the router *)

\* one account of each role; the token of an account is written as its role
Roles == {"driver", "operator", "officer", "admin"}
UserOf(token) == [role |-> token]

\* the partialize of persist: every set of the store writes its token
Set(store) ==
    /\ authStore' = store
    /\ authStorage' = store.token

\* login, up to the answer of POST /auth/login: the token goes to the
\* headers and GET /auth/me is sent with it
Login(account) ==
    /\ pending.login = NoRequest
    /\ authHeader' = account
    /\ pending' = [pending EXCEPT !.login = [kind |-> "me", token |-> account]]
    /\ UNCHANGED <<db, last, procVars, txVars, extVars, impVars, authStore, authStorage>>

\* login, from the answer of GET /auth/me on
LoginDone ==
    /\ pending.login.kind = "me"
    /\ Set([token |-> pending.login.token, user |-> UserOf(pending.login.token),
            isAuthenticated |-> TRUE])
    /\ pending' = [pending EXCEPT !.login = NoRequest]
    /\ UNCHANGED <<db, last, procVars, txVars, extVars, impVars, authHeader>>

\* logout, from the button of a layout
Logout ==
    /\ authStore.isAuthenticated
    /\ authHeader' = NoToken
    /\ Set(LoggedOut)
    /\ UNCHANGED <<db, last, procVars, txVars, extVars, impVars, pending>>

\* the page is loaded: the store is created anew, the requests of the page
\* before are gone, the token comes back from the storage and, when there is
\* one, onRehydrateStorage sends GET /auth/me with it
Rehydrate ==
    /\ authStore' = [LoggedOut EXCEPT !.token = authStorage]
    /\ authHeader' = authStorage
    /\ pending' = [login |-> NoRequest,
                   verify |-> IF authStorage = NoToken THEN NoRequest
                              ELSE [kind |-> "me", token |-> authStorage]]
    /\ UNCHANGED <<db, last, procVars, txVars, extVars, impVars, authStorage>>

\* .then of the verification: state.setUser(response.data), then
\* setState({ isAuthenticated: true })
VerifiedStore(store, token) ==
    [store EXCEPT !.user = UserOf(token), !.isAuthenticated = TRUE]

VerifyDone ==
    /\ pending.verify.kind = "me"
    /\ Set(VerifiedStore(authStore, pending.verify.token))
    /\ pending' = [pending EXCEPT !.verify = NoRequest]
    /\ UNCHANGED <<db, last, procVars, txVars, extVars, impVars, authHeader>>

\* .catch of the verification: state.logout(); after a 401 the response
\* interceptor has set window.location to /login, which loads the page
VerifyFailed(status) ==
    /\ pending.verify.kind = "me"
    /\ authHeader' = NoToken
    /\ Set(LoggedOut)
    /\ pending' = IF status = 401 THEN [login |-> NoRequest, verify |-> NoRequest]
                  ELSE [pending EXCEPT !.verify = NoRequest]
    /\ UNCHANGED <<db, last, procVars, txVars, extVars, impVars>>

\* what a route element gives: a page, or a Navigate to another path
Page(name) == [page |-> name, to |-> ""]
Navigate(to) == [page |-> "", to |-> to]

\* as ProtectedRoute, without the roles
ProtectedRouteOfAnyRole(store, allowedRoles, children) ==
    IF ~store.isAuthenticated THEN Navigate("/login")
    ELSE children

ProtectedRoute(store, allowedRoles, children) ==
    IF ~store.isAuthenticated THEN Navigate("/login")
    ELSE IF allowedRoles # {} /\ store.user # NoUser /\ store.user.role \notin allowedRoles
    THEN IF store.user.role = "driver" THEN Navigate("/driver") ELSE Navigate("/")
    ELSE children

DriverRoute(store, children) ==
    IF ~store.isAuthenticated THEN Navigate("/login?redirect=/driver")
    ELSE IF store.user # NoUser /\ store.user.role \notin {"driver", "admin"}
    THEN Navigate("/")
    ELSE children

\* the paths of <Routes>
DriverPaths == {"/driver", "/driver/vehicles", "/driver/history", "/driver/start-session/1"}
StaffPaths == {"/", "/map", "/zones", "/bays", "/sessions", "/violations", "/analysis",
               "/settings"}
Paths == {"/login", "/find-parking"} \cup DriverPaths \cup StaffPaths

\* the element of <Routes> for a path
App(store, path) ==
    LET staff(children) == ProtectedRoute(store, {"operator", "officer", "admin"}, children)
    IN  IF path \in {"/login", "/find-parking"} THEN Page(path)
        ELSE IF path \in DriverPaths THEN DriverRoute(store, Page(path))
        ELSE IF path \in {"/zones", "/bays", "/analysis"}
        THEN staff(ProtectedRoute(store, {"operator", "admin"}, Page(path)))
        ELSE IF path = "/violations"
        THEN staff(ProtectedRoute(store, {"officer", "admin"}, Page(path)))
        ELSE IF path = "/settings"
        THEN staff(ProtectedRoute(store, {"admin"}, Page(path)))
        ELSE staff(Page(path))

\* the browser goes to a path and the router renders its element
Route(path) ==
    /\ call' = [fn |-> "App", args |-> <<path>>, result |-> App(authStore, path)]
    /\ UNCHANGED <<db, last, procVars, txVars, street_segments, payment_terminals,
                   points_of_interest, impVars, authVars>>

NextAuth ==
    \/ \E account \in Roles : Login(account)
    \/ LoginDone
    \/ Logout
    \/ Rehydrate
    \/ VerifyDone
    \/ \E status \in {401, 0} : VerifyFailed(status)
    \/ \E path \in Paths : Route(path)

SpecAuth == Init /\ [][NextAuth]_vars

----------------------------------------------------------------------------
(* Properties of the web client *)

\* the access table: the roles a path is granted to
Granted(path) ==
    IF path = "/find-parking" THEN Roles
    ELSE IF path \in DriverPaths THEN {"driver", "admin"}
    ELSE IF path \in {"/", "/map"} THEN {"operator", "officer", "admin"}
    ELSE IF path \in {"/zones", "/bays", "/analysis"} THEN {"operator", "admin"}
    ELSE IF path = "/violations" THEN {"officer", "admin"}
    ELSE IF path = "/settings" THEN {"admin"}
    ELSE {}

\* the paths of the access table
TablePaths == Paths \ {"/login", "/sessions"}

\* C25: the router renders the page of a path of the access table to an
\* authenticated user exactly when the table grants the path to the user's
\* role, and to a visitor who is not authenticated only /login and
\* /find-parking
C25_RouterFollowsAccessTable ==
    \A path \in Paths :
        LET rendered == App(authStore, path) = Page(path)
        IN  IF authStore.isAuthenticated
            THEN path \in TablePaths => (rendered <=> authStore.user.role \in Granted(path))
            ELSE rendered <=> path \in {"/login", "/find-parking"}

\* an officer went to /zones and was sent to the dashboard
C25_Witness ==
    /\ authStore.isAuthenticated /\ authStore.user.role = "officer"
    /\ call.fn = "App" /\ call.args = <<"/zones">> /\ call.result = Navigate("/")

\* C30: isAuthenticated is true only while the store has a token and a user
\* and the user is the one the token belongs to
C30_AuthenticatedOnlyWithMatchingTokenAndUser ==
    authStore.isAuthenticated =>
        /\ authStore.token # NoToken
        /\ authStore.user # NoUser
        /\ authStore.user = UserOf(authStore.token)

\* C30 for the stores that no answer of a verification has written
LoginAloneKeepsTokenAndUserTogether ==
    [][(authStore'.isAuthenticated /\ pending'.verify = pending.verify)
          => (\/ authStore' = authStore
              \/ /\ authStore'.token # NoToken
                 /\ authStore'.user = UserOf(authStore'.token))]_vars

----------------------------------------------------------------------------
(* Properties of bays and the sessions on them *)

\* the sessions of table S that run on bay b: active or overstay
RunningOn(S, b) ==
    {s \in DOMAIN S : S[s].bay_id = b /\ S[s].status \in {"active", "overstay"}}

\* C26: a bay with a session that is active or overstay is occupied
C26_BayWithRunningSessionIsOccupied ==
    \A b \in DOMAIN bays : RunningOn(sessions, b) # {} => bays[b].status = "occupied"

\* C27: no bay has two active sessions
C27_OneActiveSessionPerBay ==
    \A b \in DOMAIN bays : Cardinality(ActiveOn(b)) <= 1

\* C28: when the only running session of a bay becomes completed or
\* cancelled, from active or from overstay, the bay becomes available
C28_BayFreedWhenLastSessionEnds ==
    [][ \A s \in DOMAIN sessions \cap DOMAIN sessions' :
          LET b == sessions[s].bay_id
          IN  (/\ RunningOn(sessions, b) = {s}
               /\ sessions'[s].status \in {"completed", "cancelled"}
               /\ b \in DOMAIN bays')
                  => bays'[b].status = "available" ]_vars

\* C28 for the sessions that end from active
BayFreedWhenActiveSessionEnds ==
    [][ \A s \in DOMAIN sessions \cap DOMAIN sessions' :
          LET b == sessions[s].bay_id
          IN  (/\ sessions[s].status = "active"
               /\ sessions'[s].status \in {"completed", "cancelled"}
               /\ b \in DOMAIN bays')
                  => bays'[b].status = "available" ]_vars

\* C29: every bay references a zone that exists, every session and every
\* violation a bay that exists, and every sensor no bay or a bay that
\* exists; a delete that is refused leaves every row in place
C29_ReferencesResolve ==
    /\ \A b \in DOMAIN bays : bays[b].zone_id \in DOMAIN zones
    /\ \A s \in DOMAIN sessions : sessions[s].bay_id \in DOMAIN bays
    /\ \A v \in DOMAIN violations : violations[v].bay_id \in DOMAIN bays
    /\ \A s \in DOMAIN sensors : sensors[s].bay_id \in DOMAIN bays \cup {NULL}
    /\ \A z \in DOMAIN zones :
          zone_delete(DB, z).result # OK => zone_delete(DB, z).db = DB
    /\ \A b \in DOMAIN bays :
          bay_delete(DB, b).result # OK => bay_delete(DB, b).db = DB

\* a delete has been refused for a bay that a violation or a session
\* references: neither the bay nor its zone can be deleted
C29_Witness ==
    /\ last.result = "ForeignKeyViolation"
    /\ \E b \in DOMAIN bays : /\ BaysReferenced(DB, {b})
                              /\ bay_delete(DB, b).result = "ForeignKeyViolation"
                              /\ zone_delete(DB, bays[b].zone_id).result = "ForeignKeyViolation"

====
